---------------------------- MODULE Spec2Model ----------------------------
(***************************************************************************)
(* A model of the streaming server renderer of gusaiani/react-clone:       *)
(* packages/react-dom/src/server/ReactPartialRenderer.js (the frame stack, *)
(* read, destroy, the provider stack, render and renderDOM) and the thread *)
(* id allocator that ReactPartialRendererHooks.js carries at its end.      *)
(*                                                                         *)
(* Reading of the source.  The repository is an unfinished retyping of     *)
(* React: ReactPartialRenderer.js has tokens that do not parse (lines      *)
(* 1030, 1146, 1190) and identifiers that are declared nowhere             *)
(* (innerHTML for innerHMTL, hull, nextId for nextID, the symbols it does  *)
(* not import).  Read literally no session could be constructed, so such   *)
(* a name is read as the declaration it misspells.  Every statement that   *)
(* parses is modelled as written.  Functions that are called and defined   *)
(* nowhere in the sources (popProvider, resolve, freeThreadID, toArray,    *)
(* validateContextBounds, createMarkupForRoot, escapeTextForBrowser) are   *)
(* modelled from the specification.                                        *)
(*                                                                         *)
(* Markup is a TLA+ string; a text child is a sequence of one-character    *)
(* strings, so that escaping is computed character by character.  Arrays   *)
(* are 0-based in the source and 1-based here: a[i] is written a[i + 1].   *)
(***************************************************************************)
EXTENDS Integers, Sequences, FiniteSets, TLC

VARIABLES
  nextAvailableThreadIDs, \* the allocator's free list (module state)
  contexts,               \* contexts[c][threadID]: the context slots
  sessions,               \* sessions[i]: renderer i, or NoSession
  call,                   \* the read call in progress, or NoCall
  emitted,                \* history: the chunks session i returned, joined
  chunks,                 \* history: how many reads of i returned a string
  budgets,                \* history: the budgets of i's reads, as a set
  raised,                 \* history: a read of session i raised
  preRender,              \* history: the slots at i's id when i was made
  root,                   \* history: the children renderer i was made for
  lastCall,               \* history: the last completed call and its result
  boundaries,             \* history: the open boundaries of session i
  lastFallback,           \* history: the last fallback session i finished
  threads,                \* the ids other renderers hold, how many were issued, the last one
  traversal,              \* the React.Children traversal in progress, or NoTraversal
  handed,                 \* history: the children session i handed to render, each with the stack
  hooks,                  \* the module state of ReactPartialRendererHooks.js and the current dispatcher
  released                \* history: how often the id of session i was passed to freeThreadID

vars == <<nextAvailableThreadIDs, contexts, sessions, call, emitted, chunks,
          budgets, raised, preRender, root, lastCall, boundaries, lastFallback,
                 threads, traversal, handed, hooks, released>>

-----------------------------------------------------------------------------
(* Bounds of the model *)

\* the read budgets a caller passes are 1..MaxBytes and Unbounded
MaxBytes == 2
\* a budget no output of the model reaches
Unbounded == 1000
Budgets == (1 .. MaxBytes) \cup {Unbounded}
\* the budgets of interleaved renderers: the finest split and none
SharedBudgets == {1, Unbounded}

\* the renderer objects of the model; SessionIds of them run interleaved
SessionIds == {1, 2}
ThreadIDs == 1 .. 15
ContextNames == {"A", "B"}

-----------------------------------------------------------------------------
(* Nodes: the values a tree is made of *)

Text(cs) == [kind |-> "text", chars |-> cs]
\* a number child; its digits are what '' + child gives
Num(n) == [kind |-> "number", num |-> n]
\* true or false, as a child or as the value of a prop
Bool(b) == [kind |-> "boolean", bool |-> b]
NullNode == [kind |-> "null"]
\* undefined, as a child or as the value of a prop
Undefined == [kind |-> "undefined"]
Portal == [kind |-> "portal"]
\* an object that is no element and carries a $$typeof other than a portal's
UnknownObject == [kind |-> "unknown"]
Arr(items) == [kind |-> "array", items |-> items]
Element(type, props) == [kind |-> "element", type |-> type, props |-> props]
ChildrenFn(body) == [kind |-> "function", body |-> body]

HostType(tag) == [tt |-> "string", tag |-> tag]
SymbolType(sym) == [tt |-> "symbol", sym |-> sym]
ProviderType(c) == [tt |-> "object", typeof |-> "REACT_PROVIDER_TYPE", context |-> c]
ContextType(c) == [tt |-> "object", typeof |-> "REACT_CONTEXT_TYPE", context |-> c]
FunctionType(body, result) == [tt |-> "function", body |-> body, result |-> result]
\* React.forwardRef(render): body and result say what render does
ForwardRefType(body, result) ==
  [tt |-> "object", typeof |-> "REACT_FORWARD_REF_TYPE", body |-> body, result |-> result]
\* React.memo(type)
MemoType(type) == [tt |-> "object", typeof |-> "REACT_MEMO_TYPE", type |-> type]
\* React.lazy: body says what _init(_payload) does, result is the type it gives
LazyType(body, result) ==
  [tt |-> "object", typeof |-> "REACT_LAZY_TYPE", body |-> body, result |-> result]
\* an object type whose $$typeof is none that render knows
UnknownObjectType == [tt |-> "object", typeof |-> "REACT_UNKNOWN_TYPE"]
\* an element type that is undefined
UndefinedType == [tt |-> "undefined"]

Host(tag, kids) == Element(HostType(tag), [children |-> Arr(kids)])
\* a host element with attributes; attrs is a record of props
HostWith(tag, attrs, kids) == Element(HostType(tag), attrs @@ [children |-> Arr(kids)])
\* a host element without a children prop
VoidHost(tag, attrs) == Element(HostType(tag), attrs)
Fragment(kids) == Element(SymbolType("REACT_FRAGMENT_TYPE"), [children |-> Arr(kids)])
StrictMode(kids) == Element(SymbolType("REACT_STRICT_MODE_TYPE"), [children |-> Arr(kids)])
\* <Suspense fallback={fb}>{kids}</Suspense>
Suspense(fb, kids) ==
  Element(SymbolType("REACT_SUSPENSE_TYPE"), [children |-> Arr(kids), fallback |-> fb])
\* <Suspense>{kids}</Suspense>: the fallback prop is undefined
SuspenseNoFallback(kids) ==
  Element(SymbolType("REACT_SUSPENSE_TYPE"), [children |-> Arr(kids)])
Provider(c, v, kids) == Element(ProviderType(c), [value |-> v, children |-> Arr(kids)])
\* <Context.Consumer>{value => value}</Context.Consumer>
Consumer(c) == Element(ContextType(c), [children |-> ChildrenFn("value")])
\* function components: one that returns a child, one that throws a thenable
\* (defers), one that throws an error
Returns(child) == Element(FunctionType("returns", child), [children |-> NullNode])
Defers == Element(FunctionType("defers", NullNode), [children |-> NullNode])
Throws == Element(FunctionType("throws", NullNode), [children |-> NullNode])
\* function components that call useState first, that call destroy() of the
\* renderer rendering them and return null, that call read(Infinity) of the
\* other renderer and return a child
UsesState(child) == Element(FunctionType("usesState", child), [children |-> NullNode])
UsesStateThrows == Element(FunctionType("usesStateThrows", NullNode), [children |-> NullNode])
Destroys == Element(FunctionType("destroys", NullNode), [children |-> NullNode])
Reads(child) == Element(FunctionType("reads", child), [children |-> NullNode])
\* <Forwarded/> for Forwarded = React.forwardRef(render)
Forwarded(body, result) == Element(ForwardRefType(body, result), [children |-> NullNode])

\* React.isValidElement
IsValidElement(v) == v.kind = "element"


-----------------------------------------------------------------------------
(* Children normalisation and text escaping *)

RECURSIVE ToArray(_)
\* React.Children.toArray: nested arrays are flattened depth-first; null,
\* undefined and booleans contribute no entry; anything else is one entry
ToArray(v) ==
  IF v.kind = "array"
    THEN IF Len(v.items) = 0 THEN <<>>
         ELSE ToArray(Head(v.items)) \o ToArray(Arr(Tail(v.items)))
  ELSE IF v.kind \in {"null", "undefined", "boolean"} THEN <<>>
  ELSE <<v>>

\* FlattenTopLevelChildren that leaves a root Fragment wrapped
FlattenTopLevelChildrenWrapped(children) ==
  IF ~IsValidElement(children) THEN ToArray(children) ELSE <<children>>

\* flattenTopLevelChildren: a root Fragment is unwrapped, one level only
FlattenTopLevelChildren(children) ==
  IF ~IsValidElement(children) THEN ToArray(children)
  ELSE IF children.type # SymbolType("REACT_FRAGMENT_TYPE") THEN <<children>>
  ELSE IF ~IsValidElement(children.props.children)
    THEN ToArray(children.props.children)
  ELSE <<children.props.children>>

\* one character of escapeTextForBrowser
EscapeChar(c) ==
  CASE c = "&" -> "&amp;"
    [] c = "<" -> "&lt;"
    [] c = ">" -> "&gt;"
    [] c = "\"" -> "&quot;"
    [] c = "'" -> "&#x27;"
    [] OTHER -> c

RECURSIVE EscapeTextForBrowser(_)
\* escapeTextForBrowser on the characters of a text
EscapeTextForBrowser(cs) ==
  IF Len(cs) = 0 THEN "" ELSE EscapeChar(Head(cs)) \o EscapeTextForBrowser(Tail(cs))

-----------------------------------------------------------------------------
(* ReactThreadIDAllocator: an array-backed free list; slot 0 heads it *)

\* the array's length when the module is loaded
InitialThreadCount == 16

\* new Uint16Array(16), slot i holding i + 1 and the last slot 0
InitialThreadIDs == [i \in 0 .. (InitialThreadCount - 1) |->
                       IF i < InitialThreadCount - 1 THEN i + 1 ELSE 0]

\* growThreadCountAndReturnNextAvailable: the array doubles, the old length
\* is the id returned and the slots after it are linked into the free list
GrowThreadCountAndReturnNextAvailable(ids) ==
  LET oldSize == Cardinality(DOMAIN ids)
      newSize == oldSize * 2
      grown == [i \in 0 .. (newSize - 1) |->
                  IF i = 0 THEN oldSize + 1
                  ELSE IF i < oldSize THEN ids[i]
                  ELSE IF i < newSize - 1 THEN i + 1
                  ELSE 0]
  IN [ids |-> grown, id |-> oldSize]

\* allocThreadID that leaves the head of the free list where it was
AllocThreadIDKeepsHead(ids) == [ids |-> ids, id |-> ids[0]]

\* allocThreadID: [ids |-> the array afterwards, id |-> the id returned]
AllocThreadID(ids) ==
  LET nextID == ids[0]
  IN IF nextID = 0 THEN GrowThreadCountAndReturnNextAvailable(ids)
     ELSE [ids |-> [ids EXCEPT ![0] = ids[nextID]], id |-> nextID]

\* freeThreadID: the id becomes the head of the free list
FreeThreadID(ids, id) == [ids EXCEPT ![id] = ids[0], ![0] = id]

-----------------------------------------------------------------------------
(* Context slots *)

\* context._currentValue2, the value a slot holds before any provider
DefaultValue(c) == IF c = "A" THEN <<"a">> ELSE <<"b">>

\* validateContextBounds: the slots up to threadID exist and hold a value
ValidateContextBounds(ctxs, c, threadID) == ctxs

\* PushProvider writing one slot for all threads, slot 1
PushProviderOneSlot(m, provider) ==
  LET index == m.s.contextIndex + 1
      context == provider.type.context
      previousValue == m.contexts[context][1]
      put(stk, x) == IF index < Len(stk) THEN [stk EXCEPT ![index + 1] = x]
                     ELSE Append(stk, x)
  IN [m EXCEPT !.s.contextIndex = index,
               !.s.contextStack = put(@, context),
               !.s.contextValueStack = put(@, previousValue),
               !.contexts = [@ EXCEPT ![context][1] = provider.props.value]]

\* PushProvider that moves contextIndex on by two
PushProviderSkipsIndex(m, provider) ==
  LET index == m.s.contextIndex + 2
      context == provider.type.context
      threadID == m.s.threadID
      previousValue == m.contexts[context][threadID]
      put(stk, x) == IF index < Len(stk) THEN [stk EXCEPT ![index + 1] = x]
                     ELSE Append(stk, x)
  IN [m EXCEPT !.s.contextIndex = index,
               !.s.contextStack = put(@, context),
               !.s.contextValueStack = put(@, previousValue),
               !.contexts = [@ EXCEPT ![context][threadID] = provider.props.value]]

\* PushProvider that records the previous value but leaves the slot as it is
PushProviderNoWrite(m, provider) ==
  LET index == m.s.contextIndex + 1
      context == provider.type.context
      previousValue == m.contexts[context][m.s.threadID]
      put(stk, x) == IF index < Len(stk) THEN [stk EXCEPT ![index + 1] = x]
                     ELSE Append(stk, x)
  IN [m EXCEPT !.s.contextIndex = index,
               !.s.contextStack = put(@, context),
               !.s.contextValueStack = put(@, previousValue)]

\* pushProvider: on m, the state of a read call
PushProvider(m, provider) ==
  LET index == m.s.contextIndex + 1
      context == provider.type.context
      threadID == m.s.threadID
      ctxs == ValidateContextBounds(m.contexts, context, threadID)
      previousValue == ctxs[context][threadID]
      put(stk, x) == IF index < Len(stk) THEN [stk EXCEPT ![index + 1] = x]
                     ELSE Append(stk, x)
  IN [m EXCEPT !.s.contextIndex = index,
               !.s.contextStack = put(@, context),
               !.s.contextValueStack = put(@, previousValue),
               !.contexts = [ctxs EXCEPT ![context][threadID] = provider.props.value]]

\* popProvider: the slot of the topmost recorded context goes back to the
\* value recorded with it, and the record is dropped
PopProvider(m, provider) ==
  LET index == m.s.contextIndex
      context == m.s.contextStack[index + 1]
      previousValue == m.s.contextValueStack[index + 1]
  IN [m EXCEPT !.s.contextStack = SubSeq(@, 1, index),
               !.s.contextValueStack = SubSeq(@, 1, index),
               !.s.contextIndex = index - 1,
               !.contexts = [@ EXCEPT ![context][m.s.threadID] = previousValue]]

RECURSIVE RestoreFrom(_, _, _)
\* the loop of clearProviders, from index down to 0
RestoreFrom(ctxs, s, index) ==
  IF index < 0 THEN ctxs
  ELSE RestoreFrom([ctxs EXCEPT ![s.contextStack[index + 1]][s.threadID] =
                                   s.contextValueStack[index + 1]],
                   s, index - 1)

RECURSIVE RestoreUpFrom(_, _, _)
RestoreUpFrom(ctxs, s, index) ==
  IF index > s.contextIndex THEN ctxs
  ELSE RestoreUpFrom([ctxs EXCEPT ![s.contextStack[index + 1]][s.threadID] =
                                     s.contextValueStack[index + 1]],
                     s, index + 1)

\* ClearProviders with its loop running from index 0 upwards
ClearProvidersUpwards(ctxs, s) == RestoreUpFrom(ctxs, s, 0)

\* clearProviders: contextIndex and the two stacks are left as they are
ClearProviders(ctxs, s) == RestoreFrom(ctxs, s, s.contextIndex)

-----------------------------------------------------------------------------
(* Frames and the renderer object *)

NoSession == [live |-> FALSE]
NoCall == [active |-> FALSE]

NullType == [t |-> "null"]
TagType(tag) == [t |-> "tag", tag |-> tag]
ElementFrameType(element) == [t |-> "element", element |-> element]
SuspenseFrameType == [t |-> "symbol", sym |-> "REACT_SUSPENSE_TYPE"]

\* Frame with the cursor past the first child
FrameFromSecond(type, domNamespace, children, footer) ==
  [type |-> type, domNamespace |-> domNamespace, children |-> children,
   childIndex |-> IF Len(children) > 0 THEN 1 ELSE 0, footer |-> footer]

\* a frame as render and renderDOM build it
Frame(type, domNamespace, children, footer) ==
  [type |-> type, domNamespace |-> domNamespace, children |-> children,
   childIndex |-> 0, footer |-> footer]

\* frame.type.type.$$typeof === REACT_PROVIDER_TYPE
IsProviderFrame(frame) ==
  /\ frame.type.t = "element"
  /\ frame.type.element.type.tt = "object"
  /\ frame.type.element.type.typeof = "REACT_PROVIDER_TYPE"

IsSuspenseFrame(frame) == frame.type = SuspenseFrameType

\* the constructor, given the thread id allocThreadID returned
NewRenderer(children, makeStaticMarkup, threadID) ==
  [live |-> TRUE,
   threadID |-> threadID,
   stack |-> <<Frame(NullType, "html", FlattenTopLevelChildren(children), "")>>,
   exhausted |-> FALSE,
   currentSelectValue |-> NullNode,
   previousWasTextNode |-> FALSE,
   makeStaticMarkup |-> makeStaticMarkup,
   suspenseDepth |-> 0,
   contextIndex |-> -1,
   contextStack |-> <<>>,
   contextValueStack |-> <<>>]

-----------------------------------------------------------------------------
(* The buffer levels of one read call: the array out.  A slot the array     *)
(* skips is kept as Hole; read in a concatenation it gives "undefined".     *)

Hole == "<hole>"

\* out[k] read as the left operand of +=
OutGet(out, k) ==
  IF k < Len(out) /\ out[k + 1] # Hole THEN out[k + 1] ELSE "undefined"

\* out[k] += str
OutAdd(out, k, str) ==
  IF k < Len(out) THEN [out EXCEPT ![k + 1] = OutGet(out, k) \o str]
  ELSE out \o [j \in 1 .. (k - Len(out)) |-> Hole] \o <<"undefined" \o str>>

\* the value out.pop() returns, as += reads it
OutPopped(out) ==
  IF Len(out) = 0 \/ out[Len(out)] = Hole THEN "undefined" ELSE out[Len(out)]

\* the array after out.pop()
OutAfterPop(out) == IF Len(out) = 0 THEN out ELSE SubSeq(out, 1, Len(out) - 1)

\* out[0].length can be read
HasOut0(out) == Len(out) > 0 /\ out[1] # Hole

-----------------------------------------------------------------------------
(* render and renderDOM.  A result is [m |-> the state of the read call      *)
(* afterwards, ret |-> the markup returned, thrown |-> "none", "thenable"    *)
(* (the child deferred) or "error"].                                         *)

\* ReactFeatureFlags, in the experimental channel (__EXPERIMENTAL__)
enableSuspenseServerRenderer == TRUE
enableScopeAPI == FALSE
enableFundamentalAPI == FALSE

\* '' + value for a string or a number: the characters of the result
Stringified(v) == IF v.kind = "number" THEN <<ToString(v.num)>> ELSE v.chars

Returned(m, ret) == [m |-> m, ret |-> ret, thrown |-> "none"]
Threw(m, what) == [m |-> m, ret |-> "", thrown |-> what]

\* this.stack.push(frame); return ret
Pushed(m, frame, ret) == Returned([m EXCEPT !.s.stack = Append(@, frame)], ret)

\* ReactPartialRendererHooks.js, lines 17-27 and 62: the module state before
\* any component is rendered, and ReactCurrentDispatcher.current
InitialHooks ==
  [currentlyRenderingComponent |-> "null", firstWorkInProgressHook |-> "null",
   workInProgressHook |-> "null", didScheduleRenderPhaseUpdate |-> FALSE,
   renderPhaseUpdates |-> "null", numberOfReRenders |-> 0,
   currentPartialRenderer |-> 0, dispatcher |-> "null"]

\* resetHooksState
ResetHooksState(h) ==
  [h EXCEPT !.currentlyRenderingComponent = "null",
            !.didScheduleRenderPhaseUpdate = FALSE,
            !.firstWorkInProgressHook = "null"]

\* prepareToUseHooks(componentIdentity): the component is the one rendering
PrepareToUseHooks(h) == [h EXCEPT !.currentlyRenderingComponent = "component"]

\* useState, lines 51-60, up to the hook it works on: the first stateful
\* primitive of a render starts the list of work-in-progress hooks
UseState(h) ==
  IF h.workInProgressHook = "null"
    THEN [h EXCEPT !.firstWorkInProgressHook = "hook", !.workInProgressHook = "hook"]
  ELSE [h EXCEPT !.workInProgressHook = "hook"]

\* the bodies after which the component returns its result: "destroys"
\* calls destroy() of the renderer that renders it first, "reads" calls
\* read(Infinity) of another renderer first
ReturnsResult == {"returns", "usesState", "destroys", "reads"}

\* what a call of a render function with body `body` throws
Thrown(body) ==
  CASE body = "defers" -> "thenable"
    [] body \in ReturnsResult -> "none"
    [] OTHER -> "error"

\* finishHooks: the activation is torn down, the hook state is initial
FinishHooks(h) ==
  [h EXCEPT !.currentlyRenderingComponent = InitialHooks.currentlyRenderingComponent,
            !.firstWorkInProgressHook = InitialHooks.firstWorkInProgressHook,
            !.workInProgressHook = InitialHooks.workInProgressHook,
            !.didScheduleRenderPhaseUpdate = InitialHooks.didScheduleRenderPhaseUpdate,
            !.renderPhaseUpdates = InitialHooks.renderPhaseUpdates,
            !.numberOfReRenders = InitialHooks.numberOfReRenders]

\* render, lines 690-702, and the composite case of resolve:
\* prepareToUseHooks, the call of the render function and, when the call
\* returns, finishHooks
Evaluated(h, body) ==
  LET h1 == PrepareToUseHooks(h)
      h2 == IF body \in {"usesState", "usesStateThrows"} THEN UseState(h1) ELSE h1
  IN IF Thrown(body) # "none" THEN h2 ELSE FinishHooks(h2)

RECURSIVE HooksAfterRender(_, _)
\* the module state after render(child): resolve evaluates composite
\* components until the child is none, render evaluates a forward ref
HooksAfterRender(h, child) ==
  IF child.kind # "element" THEN h
  ELSE IF child.type.tt = "function"
    THEN IF child.type.body \in ReturnsResult
           THEN HooksAfterRender(Evaluated(h, child.type.body), child.type.result)
         ELSE Evaluated(h, child.type.body)
  ELSE IF child.type.tt = "object" /\ child.type.typeof = "REACT_FORWARD_REF_TYPE"
    THEN Evaluated(h, child.type.body)
  ELSE h

\* ReadFinally that puts back neither the dispatcher nor the renderer
ReadFinallyKeepsCurrent(h, prev) == ResetHooksState(h)

\* read, lines 504-508: the finally block of a call that saved `prev`
ReadFinally(h, prev) ==
  ResetHooksState([h EXCEPT !.dispatcher = prev.prevDispatcher,
                            !.currentPartialRenderer = prev.prevPartialRenderer])

RECURSIVE Resolve(_)
\* resolve: while the child is an element of a function component, the
\* component is called and its result takes the child's place; the call may
\* throw a thenable or an error
Resolve(child) ==
  IF IsValidElement(child) /\ child.type.tt = "function"
    THEN CASE child.type.body \in ReturnsResult -> Resolve(child.type.result)
           [] OTHER -> [child |-> child, thrown |-> Thrown(child.type.body)]
  ELSE [child |-> child, thrown |-> "none"]

RECURSIVE DestroysIn(_)
\* resolve(child) calls a component whose body calls destroy()
DestroysIn(child) ==
  /\ IsValidElement(child) /\ child.type.tt = "function"
  /\ child.type.body \in ReturnsResult
  /\ (child.type.body = "destroys" \/ DestroysIn(child.type.result))

\* destroy() called while the read call m of the renderer is in progress
DestroyedIn(m) ==
  IF ~m.s.exhausted
    THEN [m EXCEPT !.s.exhausted = TRUE,
                   !.contexts = ClearProviders(m.contexts, m.s),
                   !.ids = FreeThreadID(m.ids, m.s.threadID)]
  ELSE m

\* nextProps.children(nextValue) of a consumer
CallChildren(fn, value) == Text(value)

\* createMarkupForRoot
CreateMarkupForRoot == "data-reactroot=\"\""

\* a value is null or undefined: `v == null`
IsNullish(v) == v.kind \in {"null", "undefined"}

\* a value read as a condition
Truthy(v) ==
  CASE v.kind \in {"null", "undefined"} -> FALSE
    [] v.kind = "boolean" -> v.bool
    [] v.kind = "text" -> Len(v.chars) > 0
    [] v.kind = "number" -> v.num # 0
    [] OTHER -> TRUE

\* the order in which the trees rendered here list the props of an element
PropOrder == <<"type", "id", "hidden", "multiple", "defaultChecked", "defaultValue",
               "value", "checked", "selected", "children", "fallback">>

\* a props object: its values and its keys in insertion order, the order
\* `for (propKey in props)` visits them in
OwnProps(props) ==
  [keys |-> SelectSeq(PropOrder, LAMBDA k : k \in DOMAIN props), vals |-> props]

\* props[key], undefined when props has no such key
Get(vals, key) == IF key \in DOMAIN vals THEN vals[key] ELSE Undefined

\* Object.assign(target, source): a key of source that target has keeps its
\* place, a new key goes to the end
Assign(target, source) ==
  [keys |-> target.keys \o SelectSeq(source.keys, LAMBDA k : k \notin DOMAIN target.vals),
   vals |-> [k \in DOMAIN target.vals \cup DOMAIN source.vals |->
               IF k \in DOMAIN source.vals THEN source.vals[k] ELSE target.vals[k]]]

\* getPropertyInfo: the entry of the property table, for the names used here
GetPropertyInfo(name) ==
  CASE name \in {"hidden", "checked", "multiple", "selected"} ->
         [some |-> TRUE, type |-> "BOOLEAN", attributeName |-> name]
    [] name \in {"children", "dangerouslySetInnerHTML", "defaultValue", "defaultChecked"} ->
         [some |-> TRUE, type |-> "RESERVED", attributeName |-> name]
    [] name = "value" ->
         [some |-> TRUE, type |-> "BOOLEANISH_STRING", attributeName |-> name]
    [] OTHER -> [some |-> FALSE, type |-> "", attributeName |-> name]

\* shouldIgnoreAttribute: a reserved name gives no attribute
ShouldIgnoreAttribute(name, propertyInfo) == propertyInfo.some /\ propertyInfo.type = "RESERVED"

\* shouldRemoveAttribute: null and undefined, a boolean where the property
\* takes none, and a false boolean property give no attribute
ShouldRemoveAttribute(name, value, propertyInfo) ==
  \/ IsNullish(value)
  \/ value.kind = "boolean" /\ ~propertyInfo.some
  \/ propertyInfo.some /\ propertyInfo.type = "BOOLEAN" /\ ~Truthy(value)

\* what a function returns when it runs off its end
NoMarkup == "<undefined>"

\* createMarkupForProperty: only the boolean branch returns markup; for any
\* other property the function ends without a return statement
CreateMarkupForProperty(name, value) ==
  LET propertyInfo == GetPropertyInfo(name)
  IN IF name # "style" /\ ShouldIgnoreAttribute(name, propertyInfo) THEN ""
     ELSE IF ShouldRemoveAttribute(name, value, propertyInfo) THEN ""
     ELSE IF propertyInfo.some
               /\ (\/ propertyInfo.type = "BOOLEAN"
                   \/ propertyInfo.type = "OVERLOADED_BOOLEAN" /\ value = Bool(TRUE))
       THEN propertyInfo.attributeName \o "=\"\""
     ELSE NoMarkup

\* isCustomComponent: none of the tags rendered here has a dash or an `is`
IsCustomComponentFn(tagLowercase, props) == FALSE

RECURSIVE AttributesFrom(_, _)
\* the loop of createOpenTagMarkup from the first of `keys` on
AttributesFrom(keys, vals) ==
  IF Len(keys) = 0 THEN ""
  ELSE LET propKey == Head(keys)
           propValue == vals[propKey]
           markup == IF IsNullish(propValue) THEN ""
                     ELSE CreateMarkupForProperty(propKey, propValue)
       IN (IF markup \notin {"", NoMarkup} THEN " " \o markup ELSE "")
          \o AttributesFrom(Tail(keys), vals)

\* the attributes createOpenTagMarkup's loop adds for props
AttributesMarkup(tagLowercase, props) ==
  IF IsCustomComponentFn(tagLowercase, props) THEN ""
  ELSE AttributesFrom(props.keys, props.vals)

\* createOpenTagMarkup
CreateOpenTagMarkup(tagVerbatim, tagLowercase, props, makeStaticMarkup, isRootElement) ==
  LET ret == "<" \o tagVerbatim \o AttributesMarkup(tagLowercase, props)
  IN IF makeStaticMarkup THEN ret
     ELSE IF isRootElement THEN ret \o " " \o CreateMarkupForRoot
     ELSE ret

\* getNonChildrenInnerMarkup: [some |-> it is not null, markup |-> its value]
GetNonChildrenInnerMarkup(props) ==
  IF "dangerouslySetInnerHTML" \in DOMAIN props
    THEN [some |-> TRUE, markup |-> props.dangerouslySetInnerHTML]
  ELSE IF "children" \notin DOMAIN props THEN [some |-> FALSE, markup |-> ""]
  ELSE IF props.children.kind \in {"text", "number"}
    THEN [some |-> TRUE, markup |-> EscapeTextForBrowser(Stringified(props.children))]
  ELSE [some |-> FALSE, markup |-> ""]

\* getIntrinsicNamespace
GetIntrinsicNamespace(type) ==
  CASE type = "svg" -> "svg" [] type = "math" -> "mathml" [] OTHER -> "html"

\* getChildNamespace
GetChildNamespace(parentNamespace, type) ==
  IF parentNamespace = "html" THEN GetIntrinsicNamespace(type)
  ELSE IF parentNamespace = "svg" /\ type = "foreignObject" THEN "html"
  ELSE parentNamespace

\* omittedCloseTags.hasOwnProperty(tag)
OmittedCloseTag(tag) == tag \in {"br", "hr", "img", "input"}

\* flattenOptionChildren: the strings and numbers among the children, joined
FlattenOptionChildren(children) ==
  IF IsNullish(children) THEN children
  ELSE LET kids == ToArray(children)
           Join[k \in 0 .. Len(kids)] ==
             IF k = 0 THEN <<>> ELSE Join[k - 1] \o Stringified(kids[k])
       IN Text(Join[Len(kids)])

\* InputProps with defaultChecked and defaultValue taken first
InputPropsDefaultFirst(props) ==
  LET value == IF ~IsNullish(Get(props.vals, "defaultValue"))
                 THEN Get(props.vals, "defaultValue") ELSE Get(props.vals, "value")
      checked == IF ~IsNullish(Get(props.vals, "defaultChecked"))
                   THEN Get(props.vals, "defaultChecked") ELSE Get(props.vals, "checked")
  IN Assign(Assign([keys |-> <<"type">>, vals |-> [type |-> Undefined]], props),
            [keys |-> <<"defaultChecked", "defaultValue", "value", "checked">>,
             vals |-> [defaultChecked |-> Undefined, defaultValue |-> Undefined,
                       value |-> value, checked |-> checked]])

\* renderDOM, lines 978-989: the props an input is rendered with
InputProps(props) ==
  LET value == IF ~IsNullish(Get(props.vals, "value"))
                 THEN Get(props.vals, "value") ELSE Get(props.vals, "defaultValue")
      checked == IF ~IsNullish(Get(props.vals, "checked"))
                   THEN Get(props.vals, "checked") ELSE Get(props.vals, "defaultChecked")
  IN Assign(Assign([keys |-> <<"type">>, vals |-> [type |-> Undefined]], props),
            [keys |-> <<"defaultChecked", "defaultValue", "value", "checked">>,
             vals |-> [defaultChecked |-> Undefined, defaultValue |-> Undefined,
                       value |-> value, checked |-> checked]])

\* ControllingValue reading defaultValue only
ControllingValueDefaultOnly(vals) == Get(vals, "defaultValue")

\* renderDOM, lines 1085-1086: the value that controls a select
ControllingValue(vals) ==
  IF ~IsNullish(Get(vals, "value")) THEN Get(vals, "value") ELSE Get(vals, "defaultValue")

\* renderDOM, lines 1087-1089: the props a select is rendered with
SelectProps(props) == Assign(props, [keys |-> <<"value">>, vals |-> [value |-> Undefined]])

\* OptionSelected comparing with the first entry only of an array
OptionSelectedFirstOnly(selectValue, value) ==
  IF value.kind = "undefined" THEN FALSE
  ELSE IF selectValue.kind = "array"
    THEN Len(selectValue.items) > 0 /\ Stringified(selectValue.items[1]) = value.chars
  ELSE Stringified(selectValue) = value.chars

\* renderDOM, lines 1101-1112: `value` is a string or undefined
OptionSelected(selectValue, value) ==
  IF value.kind = "undefined" THEN FALSE
  ELSE IF selectValue.kind = "array"
    THEN \E j \in 1 .. Len(selectValue.items) : Stringified(selectValue.items[j]) = value.chars
  ELSE Stringified(selectValue) = value.chars

\* renderDOM, lines 1091-1125: the props of an option under a select value
OptionProps(props, selectValue) ==
  LET optionChildren == FlattenOptionChildren(Get(props.vals, "children"))
      value == IF ~IsNullish(Get(props.vals, "value"))
                 THEN Text(Stringified(Get(props.vals, "value")))
               ELSE IF optionChildren.kind = "text" THEN optionChildren ELSE Undefined
      selected == OptionSelected(selectValue, value)
  IN Assign(Assign([keys |-> <<"selected", "children">>,
                    vals |-> [selected |-> Undefined, children |-> Undefined]], props),
            [keys |-> <<"selected", "children">>,
             vals |-> [selected |-> Bool(selected), children |-> optionChildren]])

RECURSIVE DigitsValue(_)
\* the number a sequence of digits denotes
DigitsValue(cs) ==
  IF Len(cs) = 0 THEN 0
  ELSE 10 * DigitsValue(SubSeq(cs, 1, Len(cs) - 1))
       + (CHOOSE d \in 0 .. 9 : ToString(d) = cs[Len(cs)])

\* '' + (+v), the unary plus of line 1033 and the string of its result; a
\* string of the trees rendered here is a number when it is made of digits
UnaryPlusChars(v) ==
  CASE v.kind = "number" -> <<ToString(v.num)>>
    [] v.kind = "boolean" -> IF v.bool THEN <<"1">> ELSE <<"0">>
    [] v.kind = "null" -> <<"0">>
    [] v.kind = "text" /\ (\A k \in DOMAIN v.chars : v.chars[k] \in {ToString(d) : d \in 0 .. 9}) ->
         <<ToString(DigitsValue(v.chars))>>
    [] OTHER -> <<"NaN">>

\* renderDOM, lines 1027-1031: textareaChildren after the array is unwrapped
TextareaChild(children) ==
  IF children.kind = "array"
    THEN IF Len(children.items) = 0 THEN Undefined ELSE children.items[1]
  ELSE children

\* renderDOM, lines 1022-1030: an invariant of the textarea branch fails
TextareaRaises(props) ==
  LET textareaChildren == Get(props, "children")
  IN /\ IsNullish(Get(props, "value"))
     /\ ~IsNullish(textareaChildren)
     /\ \/ Get(props, "defaultValue") # NullNode
        \/ textareaChildren.kind = "array" /\ Len(textareaChildren.items) > 1

\* renderDOM, lines 1009-1039: '' + initialValue
TextareaInitialValue(props) ==
  LET textareaChildren == Get(props, "children")
  IN IF ~IsNullish(Get(props, "value")) THEN Stringified(Get(props, "value"))
     ELSE IF ~IsNullish(textareaChildren)
       THEN UnaryPlusChars(TextareaChild(textareaChildren))
     ELSE IF IsNullish(Get(props, "defaultValue")) THEN <<>>
     ELSE Stringified(Get(props, "defaultValue"))

\* renderDOM, lines 1041-1044: the props a textarea is rendered with
TextareaProps(props) ==
  Assign(props, [keys |-> <<"value", "children">>,
                 vals |-> [value |-> Undefined,
                           children |-> Text(TextareaInitialValue(props.vals))]])

\* lines 1153-1169: the newline put before inner markup that starts with one
EatenNewline(tag, props) ==
  LET content == Get(props, "children")
  IN IF /\ tag \in {"listing", "pre", "textarea"}
        /\ content.kind = "text"
        /\ Len(content.chars) > 0
        /\ Head(content.chars) = "\n"
       THEN "\n" ELSE ""

\* renderDOM, lines 937-1126: the props the branch of the tag leaves
DOMProps(m, element) ==
  LET tag == element.type.tag
      own == OwnProps(element.props)
      selectValue == m.s.currentSelectValue
  IN CASE tag = "input" -> InputProps(own)
       [] tag = "textarea" -> TextareaProps(own)
       [] tag = "select" -> SelectProps(own)
       [] tag = "option" /\ ~IsNullish(selectValue) -> OptionProps(own, selectValue)
       [] OTHER -> own

\* RenderDOM giving every tag a closing tag
RenderDOMClosesAll(m, element, parentNamespace0) ==
  LET tag == element.type.tag
      parentNamespace == "html"
      props == DOMProps(m, element)
      m1 == IF tag = "select"
              THEN [m EXCEPT !.s.currentSelectValue = ControllingValue(element.props)]
            ELSE m
      open == CreateOpenTagMarkup(element.type.tag, tag, props,
                                  m.s.makeStaticMarkup, Len(m.s.stack) = 1)
      footer == "</" \o element.type.tag \o ">"
      inner == GetNonChildrenInnerMarkup(props.vals)
      children == IF inner.some THEN <<>> ELSE ToArray(Get(props.vals, "children"))
      out == open \o ">" \o inner.markup
      frame == Frame(TagType(tag), GetChildNamespace(parentNamespace, element.type.tag),
                     children, footer)
  IN Pushed([m1 EXCEPT !.s.previousWasTextNode = FALSE], frame, out)

\* renderDOM
RenderDOM(m, element, parentNamespace0) ==
  LET tag == element.type.tag
      \* line 916 assigns: `if (parentNamespace = Namespaces.html)`
      parentNamespace == "html"
      props == DOMProps(m, element)
      m1 == IF tag = "select"
              THEN [m EXCEPT !.s.currentSelectValue = ControllingValue(element.props)]
            ELSE m
      open == CreateOpenTagMarkup(element.type.tag, tag, props,
                                  m.s.makeStaticMarkup, Len(m.s.stack) = 1)
      isVoid == OmittedCloseTag(tag)
      footer == IF isVoid THEN "" ELSE "</" \o element.type.tag \o ">"
      inner == GetNonChildrenInnerMarkup(props.vals)
      children == IF inner.some THEN <<>> ELSE ToArray(Get(props.vals, "children"))
      out == open \o (IF isVoid THEN "/>" ELSE ">")
             \o (IF inner.some THEN EatenNewline(tag, props.vals) ELSE "") \o inner.markup
      frame == Frame(TagType(tag), GetChildNamespace(parentNamespace, element.type.tag),
                     children, footer)
  IN IF tag = "textarea" /\ TextareaRaises(element.props) THEN Threw(m, "error")
     ELSE Pushed([m1 EXCEPT !.s.previousWasTextNode = FALSE], frame, out)

FragmentLike == {"REACT_LEGACY_HIDDEN_TYPE", "REACT_DEBUG_TRACING_MODE_TYPE",
                 "REACT_STRICT_MODE_TYPE", "REACT_PROFILER_TYPE",
                 "REACT_SUSPENSE_LIST_TYPE", "REACT_FRAGMENT_TYPE"}

\* the frame of a transparent wrapper
ChildrenFrame(parentNamespace, children) == Frame(NullType, parentNamespace, children, "")

\* RenderSuspense opening a boundary also when the fallback is undefined
RenderSuspenseAlwaysBoundary(m, nextChild, parentNamespace) ==
  LET fallbackFrame == Frame(NullType, parentNamespace, <<>>, "<!--/$-->")
      frame == Frame(SuspenseFrameType, parentNamespace,
                     ToArray(nextChild.props.children), "<!--/$-->")
               @@ [fallbackFrame |-> fallbackFrame]
      r == Pushed(m, frame, "<!--$-->")
  IN [r EXCEPT !.m.s.suspenseDepth = @ + 1]

\* render, the branch of case REACT_SUSPENSE_TYPE
RenderSuspense(m, nextChild, parentNamespace) ==
  IF ~enableSuspenseServerRenderer THEN Threw(m, "error")
  ELSE IF "fallback" \notin DOMAIN nextChild.props
    THEN Pushed(m, ChildrenFrame(parentNamespace, ToArray(nextChild.props.children)), "")
  ELSE
    LET fallbackFrame == Frame(NullType, parentNamespace,
                               ToArray(nextChild.props.fallback), "<!--/$-->")
        frame == Frame(SuspenseFrameType, parentNamespace,
                       ToArray(nextChild.props.children), "<!--/$-->")
                 @@ [fallbackFrame |-> fallbackFrame]
        r == Pushed(m, frame, "<!--$-->")
    IN [r EXCEPT !.m.s.suspenseDepth = @ + 1]

\* the element React.createElement(type, Object.assign({ref}, props)) of the
\* memo and lazy cases
Rewrapped(type, props) == Element(type, props)

\* the switch on elementType.$$typeof taking every object type for a wrapper
RenderObjectTypeLenient(m, nextChild, parentNamespace) ==
  Pushed(m, ChildrenFrame(parentNamespace, ToArray(nextChild.props.children)), "")

\* render, the switch on elementType.$$typeof; an object type of no
\* recognised kind falls out of the switch to the final invariant
RenderObjectType(m, nextChild, parentNamespace) ==
  LET elementType == nextChild.type
  IN CASE elementType.typeof = "REACT_FORWARD_REF_TYPE" ->
            IF elementType.body \in ReturnsResult
              THEN Pushed(m, ChildrenFrame(parentNamespace, ToArray(elementType.result)), "")
            ELSE Threw(m, Thrown(elementType.body))
       [] elementType.typeof = "REACT_MEMO_TYPE" ->
            Pushed(m, ChildrenFrame(parentNamespace,
                                    <<Rewrapped(elementType.type, nextChild.props)>>), "")
       [] elementType.typeof = "REACT_PROVIDER_TYPE" ->
            Pushed(PushProvider(m, nextChild),
                   Frame(ElementFrameType(nextChild), parentNamespace,
                         ToArray(nextChild.props.children), ""),
                   "")
       [] elementType.typeof = "REACT_CONTEXT_TYPE" ->
            LET reactContext == elementType.context
                threadID == m.s.threadID
                ctxs == ValidateContextBounds(m.contexts, reactContext, threadID)
                nextValue == ctxs[reactContext][threadID]
            IN Pushed([m EXCEPT !.contexts = ctxs],
                      Frame(ElementFrameType(nextChild), parentNamespace,
                            ToArray(CallChildren(nextChild.props.children, nextValue)), ""),
                      "")
       [] elementType.typeof = "REACT_FUNDAMENTAL_TYPE" /\ ~enableFundamentalAPI ->
            Threw(m, "error")
       [] elementType.typeof = "REACT_LAZY_TYPE" ->
            IF elementType.body = "returns"
              THEN Pushed(m, ChildrenFrame(parentNamespace,
                                           <<Rewrapped(elementType.result, nextChild.props)>>),
                          "")
            ELSE Threw(m, Thrown(elementType.body))
       [] OTHER -> Threw(m, "error")

\* RenderText that never records that a text was put out
RenderTextNeverFlags(m, text) ==
  IF Len(text) = 0 THEN Returned(m, "")
  ELSE IF m.s.makeStaticMarkup THEN Returned(m, EscapeTextForBrowser(text))
  ELSE IF m.s.previousWasTextNode
    THEN Returned(m, "<!-- -->" \o EscapeTextForBrowser(text))
  ELSE Returned(m, EscapeTextForBrowser(text))

\* render, lines 516-528: the child is a string or a number
RenderText(m, text) ==
  IF Len(text) = 0 THEN Returned(m, "")
  ELSE IF m.s.makeStaticMarkup THEN Returned(m, EscapeTextForBrowser(text))
  ELSE IF m.s.previousWasTextNode
    THEN Returned(m, "<!-- -->" \o EscapeTextForBrowser(text))
  ELSE Returned([m EXCEPT !.s.previousWasTextNode = TRUE], EscapeTextForBrowser(text))

\* render
Render(m0, child, parentNamespace) ==
  IF child.kind \in {"text", "number"} THEN RenderText(m0, Stringified(child))
  ELSE
    LET r == Resolve(child)
        nextChild == r.child
        m == IF DestroysIn(child) THEN DestroyedIn(m0) ELSE m0
    IN IF r.thrown # "none" THEN Threw(m, r.thrown)
       ELSE IF nextChild.kind = "null" \/ (nextChild.kind = "boolean" /\ ~nextChild.bool)
         THEN Returned(m, "")
       ELSE IF ~IsValidElement(nextChild) THEN
         IF nextChild.kind \in {"portal", "unknown"} THEN Threw(m, "error")
         ELSE Pushed(m, ChildrenFrame(parentNamespace, ToArray(nextChild)), "")
       ELSE IF nextChild.type.tt = "string" THEN RenderDOM(m, nextChild, parentNamespace)
       ELSE IF nextChild.type.tt = "symbol" /\ nextChild.type.sym \in FragmentLike
         THEN Pushed(m, ChildrenFrame(parentNamespace, ToArray(nextChild.props.children)), "")
       ELSE IF nextChild.type.tt = "symbol" /\ nextChild.type.sym = "REACT_SUSPENSE_TYPE"
         THEN RenderSuspense(m, nextChild, parentNamespace)
       ELSE IF nextChild.type.tt = "symbol" /\ nextChild.type.sym = "REACT_SCOPE_TYPE"
                /\ enableScopeAPI
         THEN Pushed(m, ChildrenFrame(parentNamespace, ToArray(nextChild.props.children)), "")
       ELSE IF nextChild.type.tt = "symbol" /\ nextChild.type.sym = "REACT_SCOPE_TYPE"
         THEN Threw(m, "error")
       ELSE IF nextChild.type.tt = "object"
         THEN RenderObjectType(m, nextChild, parentNamespace)
       ELSE Threw(m, "error")

-----------------------------------------------------------------------------
(* read.  The state of a read call in progress is                           *)
(*   [s |-> the renderer, contexts, ids |-> the allocator's array,          *)
(*    out, suspended, bytes |-> the locals of read,                         *)
(*    pc |-> "loop" (at the loop's test), "return" or "throw"].             *)

TopFrame(m) == m.s.stack[Len(m.s.stack)]

\* Exhaust without the release of the thread id
ExhaustKeepsID(m) ==
  [m EXCEPT !.s.exhausted = TRUE, !.pc = "return"]

\* lines 418-422: the stack is empty
Exhaust(m) ==
  [m EXCEPT !.s.exhausted = TRUE,
            !.ids = FreeThreadID(m.ids, m.s.threadID),
            !.pc = "return"]

\* PopSuspense that leaves `suspended` set when it switches to the fallback
PopSuspenseStaysSuspended(m, frame) ==
  LET depth == m.s.suspenseDepth - 1
      buffered == OutPopped(m.out)
      out1 == OutAfterPop(m.out)
  IN IF m.suspended
       THEN [m EXCEPT !.s.suspenseDepth = depth,
                      !.s.stack = Append(@, frame.fallbackFrame),
                      !.out = OutAdd(out1, depth, "<!--$!-->")]
       ELSE [m EXCEPT !.s.suspenseDepth = depth,
                      !.out = OutAdd(OutAdd(out1, depth, buffered), depth, frame.footer)]

\* PopSuspense flushing the boundary's buffer when it switches to the fallback
PopSuspenseKeepsBuffer(m, frame) ==
  LET depth == m.s.suspenseDepth - 1
      buffered == OutPopped(m.out)
      out1 == OutAfterPop(m.out)
  IN IF m.suspended
       THEN [m EXCEPT !.s.suspenseDepth = depth,
                      !.suspended = FALSE,
                      !.s.stack = Append(@, frame.fallbackFrame),
                      !.out = OutAdd(OutAdd(out1, depth, buffered), depth, "<!--$!-->")]
       ELSE [m EXCEPT !.s.suspenseDepth = depth,
                      !.out = OutAdd(OutAdd(out1, depth, buffered), depth, frame.footer)]

\* lines 439-459: the popped frame is a boundary
PopSuspense(m, frame) ==
  LET depth == m.s.suspenseDepth - 1
      buffered == OutPopped(m.out)
      out1 == OutAfterPop(m.out)
  IN IF m.suspended
       THEN \* the fallback frame replaces the boundary; no footer is flushed
            [m EXCEPT !.s.suspenseDepth = depth,
                      !.suspended = FALSE,
                      !.s.stack = Append(@, frame.fallbackFrame),
                      !.out = OutAdd(out1, depth, "<!--$!-->")]
       ELSE [m EXCEPT !.s.suspenseDepth = depth,
                      !.out = OutAdd(OutAdd(out1, depth, buffered), depth, frame.footer)]

\* PopFrame that takes no frame for a provider frame
PopFrameNoProvider(m) ==
  LET frame == TopFrame(m)
      m1 == [m EXCEPT !.s.previousWasTextNode = IF frame.footer # "" THEN FALSE ELSE @,
                      !.s.stack = SubSeq(@, 1, Len(@) - 1)]
      flush(mm) == [mm EXCEPT !.out = OutAdd(@, mm.s.suspenseDepth, frame.footer)]
  IN IF frame.type = TagType("select")
       THEN flush([m1 EXCEPT !.s.currentSelectValue = NullNode])
     ELSE IF IsSuspenseFrame(frame) THEN PopSuspense(m1, frame)
     ELSE flush(m1)

\* PopFrame leaving previousWasTextNode as it is
PopFrameKeepsFlag(m) ==
  LET frame == TopFrame(m)
      m1 == [m EXCEPT !.s.stack = SubSeq(@, 1, Len(@) - 1)]
      flush(mm) == [mm EXCEPT !.out = OutAdd(@, mm.s.suspenseDepth, frame.footer)]
  IN IF frame.type = TagType("select")
       THEN flush([m1 EXCEPT !.s.currentSelectValue = NullNode])
     ELSE IF IsProviderFrame(frame) THEN flush(PopProvider(m1, frame.type.element))
     ELSE IF IsSuspenseFrame(frame) THEN PopSuspense(m1, frame)
     ELSE flush(m1)

\* PopFrame leaving the select value in place when a select frame is popped
PopFrameKeepsSelect(m) ==
  LET frame == TopFrame(m)
      m1 == [m EXCEPT !.s.previousWasTextNode = IF frame.footer # "" THEN FALSE ELSE @,
                      !.s.stack = SubSeq(@, 1, Len(@) - 1)]
      flush(mm) == [mm EXCEPT !.out = OutAdd(@, mm.s.suspenseDepth, frame.footer)]
  IN IF IsProviderFrame(frame) THEN flush(PopProvider(m1, frame.type.element))
     ELSE IF IsSuspenseFrame(frame) THEN PopSuspense(m1, frame)
     ELSE flush(m1)

\* PopFrame that raises and leaves the frame where it is
PopFrameRaises(m) == [m EXCEPT !.pc = "throw"]

\* lines 425-464: the top frame is popped
PopFrame(m) ==
  LET frame == TopFrame(m)
      m1 == [m EXCEPT !.s.previousWasTextNode = IF frame.footer # "" THEN FALSE ELSE @,
                      !.s.stack = SubSeq(@, 1, Len(@) - 1)]
      flush(mm) == [mm EXCEPT !.out = OutAdd(@, mm.s.suspenseDepth, frame.footer)]
  IN IF frame.type = TagType("select")
       THEN flush([m1 EXCEPT !.s.currentSelectValue = NullNode])
     ELSE IF IsProviderFrame(frame) THEN flush(PopProvider(m1, frame.type.element))
     ELSE IF IsSuspenseFrame(frame) THEN PopSuspense(m1, frame)
     ELSE flush(m1)

\* RenderChild leaving the loop after the child it rendered
RenderChildThenReturn(m) ==
  LET n == Len(m.s.stack)
      frame == TopFrame(m)
      child == frame.children[frame.childIndex + 1]
      m1 == [m EXCEPT !.s.stack[n].childIndex = @ + 1]
      r == Render(m1, child, frame.domNamespace)
      add(mm, outBuffer) ==
        LET out1 == IF Len(mm.out) <= mm.s.suspenseDepth THEN Append(mm.out, "")
                    ELSE mm.out
        IN [mm EXCEPT !.out = OutAdd(out1, mm.s.suspenseDepth, outBuffer)]
  IN CASE r.thrown = "none" /\ r.m.s.suspenseDepth = 0 ->
            [add(r.m, r.ret) EXCEPT !.pc = "return"]
       [] r.thrown = "none" -> add(r.m, r.ret)
       [] r.thrown = "thenable" /\ enableSuspenseServerRenderer /\ r.m.s.suspenseDepth > 0 ->
            add([r.m EXCEPT !.suspended = TRUE], "")
       [] OTHER -> [r.m EXCEPT !.pc = "throw"]

\* RenderChild taking a deferral as a suspension at any depth
RenderChildAlwaysSuspends(m) ==
  LET n == Len(m.s.stack)
      frame == TopFrame(m)
      child == frame.children[frame.childIndex + 1]
      m1 == [m EXCEPT !.s.stack[n].childIndex = @ + 1]
      r == Render(m1, child, frame.domNamespace)
      add(mm, outBuffer) ==
        LET out1 == IF Len(mm.out) <= mm.s.suspenseDepth THEN Append(mm.out, "")
                    ELSE mm.out
        IN [mm EXCEPT !.out = OutAdd(out1, mm.s.suspenseDepth, outBuffer)]
  IN CASE r.thrown = "none" -> add(r.m, r.ret)
       [] r.thrown = "thenable" /\ enableSuspenseServerRenderer ->
            add([r.m EXCEPT !.suspended = TRUE], "")
       [] OTHER -> [r.m EXCEPT !.pc = "throw"]

\* RenderChild that moves the cursor of the top frame by two
RenderChildSkips(m) ==
  LET n == Len(m.s.stack)
      frame == TopFrame(m)
      child == frame.children[frame.childIndex + 1]
      m1 == [m EXCEPT !.s.stack[n].childIndex = @ + 2]
      r == Render(m1, child, frame.domNamespace)
      add(mm, outBuffer) ==
        LET out1 == IF Len(mm.out) <= mm.s.suspenseDepth THEN Append(mm.out, "")
                    ELSE mm.out
        IN [mm EXCEPT !.out = OutAdd(out1, mm.s.suspenseDepth, outBuffer)]
  IN CASE r.thrown = "none" -> add(r.m, r.ret)
       [] r.thrown = "thenable" /\ enableSuspenseServerRenderer /\ r.m.s.suspenseDepth > 0 ->
            add([r.m EXCEPT !.suspended = TRUE], "")
       [] OTHER -> [r.m EXCEPT !.pc = "throw"]

\* lines 466-497: what read does with the result r of render
Rendered(r) ==
  LET add(mm, outBuffer) ==
        LET out1 == IF Len(mm.out) <= mm.s.suspenseDepth THEN Append(mm.out, "")
                    ELSE mm.out
        IN [mm EXCEPT !.out = OutAdd(out1, mm.s.suspenseDepth, outBuffer)]
  IN CASE r.thrown = "none" -> add(r.m, r.ret)
       [] r.thrown = "thenable" /\ enableSuspenseServerRenderer /\ r.m.s.suspenseDepth > 0 ->
            add([r.m EXCEPT !.suspended = TRUE], "")
       [] OTHER -> [r.m EXCEPT !.pc = "throw"]

\* lines 465-501: the next child of the top frame is rendered
RenderChild(m) ==
  LET n == Len(m.s.stack)
      frame == TopFrame(m)
      child == frame.children[frame.childIndex + 1]
      m1 == [m EXCEPT !.s.stack[n].childIndex = @ + 1]
  IN Rendered(Render(m1, child, frame.domNamespace))

\* LoopStep with the budget tested against the current buffer level
\* instead of out[0]
LoopStepCurrentLevel(m) ==
  IF ~HasOut0(m.out) THEN [m EXCEPT !.pc = "throw"]
  ELSE IF ~(Len(OutGet(m.out, m.s.suspenseDepth)) < m.bytes) THEN [m EXCEPT !.pc = "return"]
  ELSE IF Len(m.s.stack) = 0 THEN Exhaust(m)
  ELSE IF m.suspended \/ TopFrame(m).childIndex >= Len(TopFrame(m).children)
    THEN PopFrame(m)
  ELSE RenderChild(m)

\* LoopStep going on while out[0] is no longer than the budget
LoopStepInclusive(m) ==
  IF ~HasOut0(m.out) THEN [m EXCEPT !.pc = "throw"]
  ELSE IF ~(Len(m.out[1]) <= m.bytes) THEN [m EXCEPT !.pc = "return"]
  ELSE IF Len(m.s.stack) = 0 THEN Exhaust(m)
  ELSE IF m.suspended \/ TopFrame(m).childIndex >= Len(TopFrame(m).children)
    THEN PopFrame(m)
  ELSE RenderChild(m)

\* LoopStep leaving the loop one character short of the budget
LoopStepOneShort(m) ==
  IF ~HasOut0(m.out) THEN [m EXCEPT !.pc = "throw"]
  ELSE IF ~(Len(m.out[1]) + 1 < m.bytes) THEN [m EXCEPT !.pc = "return"]
  ELSE IF Len(m.s.stack) = 0 THEN Exhaust(m)
  ELSE IF m.suspended \/ TopFrame(m).childIndex >= Len(TopFrame(m).children)
    THEN PopFrame(m)
  ELSE RenderChild(m)

\* one pass of the loop of read, from its test
LoopStep(m) ==
  IF ~HasOut0(m.out) THEN [m EXCEPT !.pc = "throw"]
  ELSE IF ~(Len(m.out[1]) < m.bytes) THEN [m EXCEPT !.pc = "return"]
  ELSE IF Len(m.s.stack) = 0 THEN Exhaust(m)
  ELSE IF m.suspended \/ TopFrame(m).childIndex >= Len(TopFrame(m).children)
    THEN PopFrame(m)
  ELSE RenderChild(m)

\* the state of a read(bytes) call of renderer s as it enters its loop
EnterRead(s, ctxs, ids, bytes) ==
  [s |-> s, contexts |-> ctxs, ids |-> ids, out |-> <<"">>, suspended |-> FALSE,
   bytes |-> bytes, pc |-> "loop"]

RECURSIVE RunLoop(_)
\* the loop run until read returns or throws
RunLoop(m) == IF m.pc # "loop" THEN m ELSE RunLoop(LoopStep(m))

-----------------------------------------------------------------------------
(* The trees rendered *)

X == Text(<<"x">>)
Y == Text(<<"y">>)
Amp == Text(<<"&">>)
V1 == <<"1">>
V2 == <<"2">>

\* what a root is put together from
Parts ==
  { X, Amp, Defers,
    Host("div", <<X, Y>>),
    Fragment(<<Host("p", <<>>), Y>>),
    Provider("A", V1, <<Consumer("A"), Provider("A", V2, <<Consumer("A")>>), Consumer("A")>>),
    Suspense(Arr(<<Text(<<"f">>)>>), <<X, Provider("A", V1, <<Y, Defers>>)>>) }

\* the arrays of at most n parts
PartArrays(n) == UNION {[1 .. k -> Parts] : k \in 0 .. n}

\* the most parts a root array holds
MaxParts == 2

\* <option>a</option> and <select defaultValue="a">
OptionA == Host("option", <<Text(<<"a">>)>>)
SelectA(kids) == HostWith("select", [defaultValue |-> Text(<<"a">>)], kids)

Deep ==
  { Fragment(<<Fragment(<<Host("b", <<>>)>>), X>>),
    Fragment(<<Host("b", <<X>>), Y>>),
    Fragment(<<X, Fragment(<<Y, StrictMode(<<X>>)>>), Y>>),
    Host("div", <<Fragment(<<X, Host("i", <<>>)>>), Fragment(<<Y>>)>>),
    Suspense(Fragment(<<Text(<<"f">>), Consumer("A")>>),
             <<Host("div", <<X>>), Provider("A", V1, <<Provider("B", V2, <<Defers>>)>>)>>),
    Suspense(Text(<<"o">>), <<Suspense(Text(<<"i">>), <<X, Defers>>), Y, Defers>>),
    Suspense(Text(<<"o">>), <<X, Suspense(Defers, <<Y, Defers>>)>>),
    Suspense(Defers, <<X, Defers>>),
    Suspense(Text(<<"f">>), <<X, Y>>),
    SuspenseNoFallback(<<X, Defers>>),
    Suspense(Text(<<"f">>), <<SuspenseNoFallback(<<X, Defers>>)>>),
    Provider("A", V1, <<Throws, Consumer("A")>>),
    Provider("A", V1, <<Provider("B", V2, <<Portal, Consumer("B")>>), Consumer("B")>>),
    Returns(Arr(<<X, NullNode, Returns(Y)>>)),
    Provider("A", V1, <<Suspense(Consumer("A"), <<Provider("A", V2, <<Consumer("A"), Defers>>)>>)>>),
    Suspense(Text(<<"f">>), <<Throws, X>>),
    Suspense(Text(<<"o">>), <<Suspense(Text(<<"i">>), <<Throws, X, Defers>>), Y>>),
    SelectA(<<Suspense(OptionA, <<OptionA, Defers>>)>>),
    Suspense(OptionA, <<SelectA(<<OptionA, Defers>>)>>),
    SelectA(<<Suspense(OptionA, <<HostWith("select", [defaultValue |-> Text(<<"b">>)],
                                           <<Defers>>)>>),
              OptionA>>),
    SelectA(<<Host("select", <<OptionA>>), OptionA>>) }

\* the roots a renderer of Spec is made for
Roots == {Arr(a) : a \in PartArrays(MaxParts)} \cup Deep

\* the roots of the renderers that run interleaved
SharedRoots ==
  { Provider("A", V1, <<Consumer("A"), Provider("A", V2, <<Consumer("A")>>), Consumer("A")>>),
    Arr(<<Consumer("A"), Provider("A", V2, <<Consumer("A"), Throws>>)>>),
    Suspense(Consumer("A"), <<Provider("A", V1, <<X, Defers>>)>>) }

\* what a root of scalars is put together from
TextParts == { Amp, Text(<<>>), Num(0), Host("b", <<Y, Y>>) }

\* the most items such a root holds
MaxTexts == 3

TextRoots ==
  {Arr(a) : a \in UNION {[1 .. k -> TextParts] : k \in 0 .. MaxTexts}}
  \cup { Arr(<<X, Fragment(<<Y, Num(7)>>), Y>>),
         Arr(<<X, Host("b", <<>>), Fragment(<<Text(<<"<">>)>>), Num(12)>>) }

\* the scenario div of the specification
DivScenario == HostWith("div", [id |-> Text(<<"a">>), hidden |-> Bool(TRUE)], <<X, Y>>)

\* <input checked={c} defaultChecked={d} />
InputChecked(c, d) == VoidHost("input", [checked |-> Bool(c), defaultChecked |-> Bool(d)])

InputRoots ==
  {InputChecked(c, d) : c, d \in BOOLEAN}
  \cup { VoidHost("input", [defaultChecked |-> Bool(TRUE)]),
         VoidHost("input", [defaultChecked |-> Bool(TRUE), defaultValue |-> Text(<<"v">>),
                            checked |-> NullNode]) }

\* the values a select is controlled by
SelectValues ==
  { Undefined, Text(<<"a">>), Num(1), Arr(<<Text(<<"a">>), Num(1)>>), Arr(<<>>) }

\* <option value={v}>{text}</option>, and the option without a value prop
OptionOf(v, text) ==
  IF v.kind = "undefined" THEN Host("option", <<Text(text)>>)
  ELSE HostWith("option", [value |-> v], <<Text(text)>>)

\* the options of the selects rendered
Options ==
  << OptionOf(Text(<<"a">>), <<"A">>),
     OptionOf(Undefined, <<"1">>),
     HostWith("option", [selected |-> Bool(TRUE)], <<Text(<<"&">>)>>),
     OptionOf(Num(1), <<"a">>) >>

\* <select value={sv}>, <select defaultValue={sv}> when byDefault, and the
\* select with neither when sv is undefined; with an array it is `multiple`
SelectOf(sv, byDefault, opts) ==
  IF sv.kind = "undefined" THEN Host("select", opts)
  ELSE IF sv.kind = "array" /\ byDefault
    THEN HostWith("select", [multiple |-> Bool(TRUE), defaultValue |-> sv], opts)
  ELSE IF sv.kind = "array"
    THEN HostWith("select", [multiple |-> Bool(TRUE), value |-> sv], opts)
  ELSE IF byDefault THEN HostWith("select", [defaultValue |-> sv], opts)
  ELSE HostWith("select", [value |-> sv], opts)

SelectRoots ==
  {SelectOf(sv, d, Options) : sv \in SelectValues, d \in BOOLEAN}
  \cup { SelectOf(Text(<<"a">>), FALSE,
                  <<Host("select", <<OptionOf(Text(<<"a">>), <<"A">>)>>),
                    OptionOf(Text(<<"a">>), <<"A">>)>>),
         SelectOf(Text(<<"a">>), TRUE,
                  <<OptionOf(Text(<<"a">>), <<"A">>),
                    Fragment(<<SelectOf(Num(1), FALSE, Options)>>),
                    Fragment(<<OptionOf(Text(<<"a">>), <<"A">>)>>)>>) }

\* roots whose rendering raises, and roots of wrapper types
TypeRoots ==
  { Arr(<<X, Portal, Y>>),
    Arr(<<X, Returns(UnknownObject), Y>>),
    Arr(<<Host("b", <<Element(UnknownObjectType, [children |-> NullNode]), X>>), Y>>),
    Arr(<<X, Element(UndefinedType, [children |-> NullNode])>>),
    Arr(<<X, Element(SymbolType("REACT_UNKNOWN_TYPE"), [children |-> Arr(<<Y>>)])>>),
    Arr(<<X, Element(SymbolType("REACT_SCOPE_TYPE"), [children |-> Arr(<<Y>>)])>>),
    Arr(<<Element(MemoType(FunctionType("returns", X)), [children |-> NullNode]), Y>>),
    Arr(<<Element(ForwardRefType("returns", Arr(<<X, Y>>)), [children |-> NullNode]),
          Element(ForwardRefType("throws", NullNode), [children |-> NullNode]), Y>>),
    Arr(<<Element(LazyType("returns", HostType("i")), [children |-> Arr(<<X>>)]),
          Returns(Bool(TRUE)), Returns(Bool(FALSE)), Y>>) }

\* <textarea {...attrs}/>
Textarea(attrs) == Element(HostType("textarea"), attrs)

\* the props of the textareas rendered
TextareaAttrs ==
  { [value |-> Text(<<"v">>)],
    [value |-> Num(7), defaultValue |-> Text(<<"d">>)],
    [defaultValue |-> Text(<<"d">>)],
    [value |-> NullNode, defaultValue |-> Text(<<"d">>)],
    [hidden |-> Bool(FALSE)],
    [children |-> Text(<<"x">>)],
    [children |-> Arr(<<Text(<<"x">>)>>)],
    [defaultValue |-> NullNode, children |-> Text(<<"x">>)],
    [defaultValue |-> NullNode, children |-> Arr(<<Text(<<"4", "2">>)>>)],
    [defaultValue |-> NullNode, children |-> Arr(<<X, Y>>)],
    [children |-> Arr(<<X, Y>>)],
    [value |-> Text(<<"v">>), children |-> Arr(<<X, Y>>)] }

\* the textareas, and elements whose content starts with a newline
TextareaRoots ==
  {Textarea(attrs) : attrs \in TextareaAttrs}
  \cup { Textarea([defaultValue |-> Text(<<"\n", "d">>)]),
         Element(HostType("pre"), [children |-> Text(<<"\n", "p">>)]),
         Element(HostType("b"), [children |-> Text(<<"\n", "p">>)]) }

\* roots with svg and math subtrees
NamespaceRoots ==
  { Host("svg", <<Host("g", <<Host("circle", <<>>), X>>)>>),
    Host("div", <<Fragment(<<Host("svg", <<Fragment(<<Host("g", <<>>)>>)>>)>>), Host("p", <<>>)>>),
    Host("math", <<Host("mi", <<X>>)>>) }

\* roots with void elements between texts and inside an element
VoidRoots ==
  { Arr(<<X, VoidHost("hr", [id |-> Text(<<"a">>)]), Y>>),
    Arr(<<Host("b", <<X, VoidHost("img", [hidden |-> Bool(TRUE)]), Y>>)>>) }

\* the roots of the renderers of SpecDOM
DOMRoots ==
  TextRoots \cup {DivScenario} \cup InputRoots \cup SelectRoots \cup TypeRoots \cup VoidRoots
  \cup TextareaRoots \cup NamespaceRoots

-----------------------------------------------------------------------------
(* The state machine *)

NoFallback == [set |-> FALSE]

\* the slots before any renderer has run
InitialContexts == [c \in ContextNames |-> [t \in ThreadIDs |-> DefaultValue(c)]]

\* no React.Children call is in progress
NoTraversal == [pc |-> "none"]

Init ==
  /\ nextAvailableThreadIDs = InitialThreadIDs
  /\ contexts = InitialContexts
  /\ sessions = [i \in SessionIds |-> NoSession]
  /\ call = NoCall
  /\ emitted = [i \in SessionIds |-> ""]
  /\ chunks = [i \in SessionIds |-> 0]
  /\ budgets = [i \in SessionIds |-> {}]
  /\ raised = [i \in SessionIds |-> FALSE]
  /\ preRender = [i \in SessionIds |-> [c \in ContextNames |-> DefaultValue(c)]]
  /\ root = [i \in SessionIds |-> NullNode]
  /\ lastCall = [op |-> "none", sid |-> 0, result |-> "none", chunk |-> ""]
  /\ boundaries = [i \in SessionIds |-> <<>>]
  /\ lastFallback = [i \in SessionIds |-> NoFallback]
  /\ threads = [held |-> {}, issued |-> 0, last |-> 0]
  /\ traversal = NoTraversal
  /\ handed = [i \in SessionIds |-> <<>>]
  /\ hooks = InitialHooks
  /\ released = [i \in SessionIds |-> 0]

\* new ReactDOMServerRenderer(children, makeStaticMarkup)
Construct(i, children, makeStaticMarkup) ==
  /\ call = NoCall
  /\ sessions[i] = NoSession
  /\ LET a == AllocThreadID(nextAvailableThreadIDs)
     IN /\ nextAvailableThreadIDs' = a.ids
        /\ sessions' = [sessions EXCEPT ![i] = NewRenderer(children, makeStaticMarkup, a.id)]
        /\ preRender' = [preRender EXCEPT ![i] = [c \in ContextNames |-> contexts[c][a.id]]]
  /\ root' = [root EXCEPT ![i] = children]
  /\ lastCall' = [op |-> "new", sid |-> i, result |-> "none", chunk |-> ""]
  /\ UNCHANGED <<contexts, call, emitted, chunks, budgets, raised, boundaries, lastFallback,
                 threads, traversal, handed, hooks, released>>

\* how many calls of freeThreadID took the free list from ids to ids2: a
\* call always changes the list
Frees(ids, ids2) == IF ids2 # ids THEN 1 ELSE 0

\* Destroy without the test of the exhausted flag
DestroyUnchecked(i) ==
  /\ call = NoCall
  /\ sessions[i].live
  /\ sessions' = [sessions EXCEPT ![i].exhausted = TRUE]
  /\ contexts' = ClearProviders(contexts, sessions[i])
  /\ nextAvailableThreadIDs' = FreeThreadID(nextAvailableThreadIDs, sessions[i].threadID)
  /\ released' = [released EXCEPT ![i] = @ + Frees(nextAvailableThreadIDs,
                                                     nextAvailableThreadIDs')]
  /\ lastCall' = [op |-> "destroy", sid |-> i, chunk |-> "",
                  result |-> IF sessions[i].exhausted THEN "already" ELSE "destroyed"]
  /\ UNCHANGED <<call, emitted, chunks, budgets, raised, preRender, root, boundaries,
                 lastFallback,
                 threads, traversal, handed, hooks>>

\* destroy()
Destroy(i) ==
  /\ call = NoCall
  /\ sessions[i].live
  /\ IF ~sessions[i].exhausted
       THEN /\ sessions' = [sessions EXCEPT ![i].exhausted = TRUE]
            /\ contexts' = ClearProviders(contexts, sessions[i])
            /\ nextAvailableThreadIDs' =
                 FreeThreadID(nextAvailableThreadIDs, sessions[i].threadID)
       ELSE UNCHANGED <<sessions, contexts, nextAvailableThreadIDs>>
  /\ released' = [released EXCEPT ![i] = @ + Frees(nextAvailableThreadIDs,
                                                     nextAvailableThreadIDs')]
  /\ lastCall' = [op |-> "destroy", sid |-> i, chunk |-> "",
                  result |-> IF sessions[i].exhausted THEN "already" ELSE "destroyed"]
  /\ UNCHANGED <<call, emitted, chunks, budgets, raised, preRender, root, boundaries,
                 lastFallback,
                 threads, traversal, handed, hooks>>

\* read(bytes) on an exhausted renderer: lines 404-406
ReadExhausted(i) ==
  /\ call = NoCall
  /\ sessions[i].live
  /\ sessions[i].exhausted
  /\ lastCall' = [op |-> "read", sid |-> i, result |-> "null", chunk |-> ""]
  /\ UNCHANGED <<nextAvailableThreadIDs, contexts, sessions, call, emitted, chunks,
                 budgets, raised, preRender, root, boundaries, lastFallback,
                 threads, traversal, handed, hooks, released>>

\* ReadBegin without the test of the exhausted flag
ReadBeginUnchecked(i, bytes) ==
  /\ call = NoCall
  /\ sessions[i].live
  /\ call' = [active |-> TRUE, sid |-> i, out |-> <<"">>, suspended |-> FALSE,
              bytes |-> bytes, pc |-> "loop",
              prevPartialRenderer |-> hooks.currentPartialRenderer,
              prevDispatcher |-> hooks.dispatcher]
  /\ hooks' = [hooks EXCEPT !.currentPartialRenderer = i, !.dispatcher = "Dispatcher"]
  /\ budgets' = [budgets EXCEPT ![i] = @ \cup {bytes}]
  /\ UNCHANGED <<nextAvailableThreadIDs, contexts, sessions, emitted, chunks, raised,
                 preRender, root, lastCall, boundaries, lastFallback,
                 threads, traversal, handed, released>>

\* read(bytes) up to its loop: lines 404-416
ReadBegin(i, bytes) ==
  /\ call = NoCall
  /\ sessions[i].live
  /\ ~sessions[i].exhausted
  /\ call' = [active |-> TRUE, sid |-> i, out |-> <<"">>, suspended |-> FALSE,
              bytes |-> bytes, pc |-> "loop",
              prevPartialRenderer |-> hooks.currentPartialRenderer,
              prevDispatcher |-> hooks.dispatcher]
  /\ hooks' = [hooks EXCEPT !.currentPartialRenderer = i, !.dispatcher = "Dispatcher"]
  /\ budgets' = [budgets EXCEPT ![i] = @ \cup {bytes}]
  /\ UNCHANGED <<nextAvailableThreadIDs, contexts, sessions, emitted, chunks, raised,
                 preRender, root, lastCall, boundaries, lastFallback,
                 threads, traversal, handed, released>>

\* the read call in progress, as LoopStep takes it
Machine ==
  [s |-> sessions[call.sid], contexts |-> contexts, ids |-> nextAvailableThreadIDs,
   out |-> call.out, suspended |-> call.suspended, bytes |-> call.bytes, pc |-> call.pc]

\* LoopStep takes its popping branch
Popping(m) ==
  /\ HasOut0(m.out) /\ Len(m.out[1]) < m.bytes /\ Len(m.s.stack) > 0
  /\ (m.suspended \/ TopFrame(m).childIndex >= Len(TopFrame(m).children))

\* the loop is about to render the next child of the top frame
Rendering(m) ==
  /\ HasOut0(m.out) /\ Len(m.out[1]) < m.bytes /\ Len(m.s.stack) > 0
  /\ ~Popping(m)

\* what buffer level `level` holds, "" while the array has no such slot
Level(out, level) ==
  IF level < Len(out) /\ out[level + 1] # Hole THEN out[level + 1] ELSE ""

\* all that session i has put out at `level`: level 0 is what its reads
\* returned and what the call in progress holds
Cumulative(i, out, level) ==
  IF level = 0 THEN emitted[i] \o Level(out, 0) ELSE Level(out, level)

RECURSIVE RunUntilPopped(_, _)
\* the loop run until the frame at height h has no child left to render and
\* is about to be popped
RunUntilPopped(m, h) ==
  IF m.pc # "loop" \/ Len(m.s.stack) < h \/ (Len(m.s.stack) = h /\ Popping(m)) THEN m
  ELSE RunUntilPopped(LoopStep(m), h)

\* the markup of rendering the children of the frame at height h alone: from
\* m, into empty buffers and under no budget
AloneOutput(m, h, level) ==
  LET r == RunUntilPopped([m EXCEPT !.out = [j \in 1 .. (level + 1) |-> ""],
                                    !.bytes = Unbounded, !.pc = "loop"], h)
  IN IF r.pc = "throw" THEN "(raises)" ELSE Level(r.out, level)

\* the history of open boundaries after the step from m to m2: an entry per
\* boundary frame and per fallback frame on the stack, bottom first, with
\* the select value in effect when the boundary was rendered and whether a
\* select frame has been popped since
BoundariesAfter(i, m, m2) ==
  LET h == Len(m.s.stack)
      es == boundaries[i]
      top == es[Len(es)]
      mine == Len(es) > 0 /\ top.height = h
      rest == SubSeq(es, 1, Len(es) - 1)
  IN IF Popping(m) /\ mine
       THEN IF ~top.fallback /\ m.suspended
              THEN Append(rest, [height |-> h, level |-> top.level, fallback |-> TRUE,
                                 base |-> top.base,
                                 alone |-> AloneOutput(m2, h, top.level),
                                 select |-> top.select, cleared |-> top.cleared])
            ELSE rest
     ELSE IF ~Popping(m) /\ m2.pc = "loop" /\ Len(m2.s.stack) = h + 1
               /\ IsSuspenseFrame(TopFrame(m2))
       THEN Append(es, [height |-> h + 1, level |-> m.s.suspenseDepth, fallback |-> FALSE,
                        base |-> Cumulative(i, m.out, m.s.suspenseDepth), alone |-> "",
                        select |-> m.s.currentSelectValue, cleared |-> FALSE])
     ELSE IF Popping(m) /\ TopFrame(m).type = TagType("select")
       THEN [k \in DOMAIN es |-> [es[k] EXCEPT !.cleared = TRUE]]
     ELSE es

\* the fallback frame the step from m to m2 finished, if it finished one
LastFallbackAfter(i, m, m2) ==
  LET es == boundaries[i]
      top == es[Len(es)]
  IN IF Popping(m) /\ ~m.suspended /\ Len(es) > 0 /\ top.height = Len(m.s.stack)
          /\ top.fallback
       THEN [set |-> TRUE, base |-> top.base, alone |-> top.alone,
             actual |-> Cumulative(i, m2.out, top.level)]
     ELSE lastFallback[i]

\* the children handed to render after the pass of the loop from m: line 474
\* is reached with the child at the cursor of the top frame
HandedAfter(i, m) ==
  IF Rendering(m)
    THEN Append(handed[i], [stack |-> m.s.stack,
                            node |-> TopFrame(m).children[TopFrame(m).childIndex + 1]])
  ELSE handed[i]

\* the pass of the loop that takes the read call in progress from m to m2
Passed(i, m, m2) ==
  /\ sessions' = [sessions EXCEPT ![i] = m2.s]
  /\ contexts' = m2.contexts
  /\ nextAvailableThreadIDs' = m2.ids
  /\ call' = [call EXCEPT !.out = m2.out, !.suspended = m2.suspended, !.pc = m2.pc]
  /\ boundaries' = [boundaries EXCEPT ![i] = BoundariesAfter(i, m, m2)]
  /\ lastFallback' = [lastFallback EXCEPT ![i] = LastFallbackAfter(i, m, m2)]
  /\ handed' = [handed EXCEPT ![i] = HandedAfter(i, m)]
  /\ hooks' = IF Rendering(m) THEN HooksAfterRender(hooks, TopFrame(m).children[TopFrame(m).childIndex + 1])
              ELSE hooks
  /\ released' = [released EXCEPT ![i] = @ + Frees(m.ids, m2.ids)]

\* the child the loop is about to render calls read of another renderer
NextChildReads(m) ==
  /\ Rendering(m)
  /\ LET child == TopFrame(m).children[TopFrame(m).childIndex + 1]
     IN IsValidElement(child) /\ child.type.tt = "function" /\ child.type.body = "reads"

\* one pass of the loop of the read call in progress
ReadLoop(i) ==
  /\ call # NoCall
  /\ call.sid = i
  /\ call.pc = "loop"
  /\ ~NextChildReads(Machine)
  /\ Passed(i, Machine, LoopStep(Machine))
  /\ UNCHANGED <<emitted, chunks, budgets, raised, preRender, root, lastCall,
                 threads, traversal>>

\* the call j.read(Infinity) a component makes, run to its end; a renderer
\* that is exhausted is left at once (lines 404-406)
InnerRead(j) ==
  IF sessions[j].exhausted
    THEN EnterRead(sessions[j], contexts, nextAvailableThreadIDs, Unbounded)
  ELSE RunLoop(EnterRead(sessions[j], contexts, nextAvailableThreadIDs, Unbounded))

\* the pass of the outer loop from m1: an error of the inner call leaves the
\* component and the outer read, after line 466 moved the cursor
OuterPass(m1, failed) ==
  IF failed
    THEN Rendered(Threw([m1 EXCEPT !.s.stack[Len(m1.s.stack)].childIndex = @ + 1], "error"))
  ELSE LoopStep(m1)

\* the module state after the inner call: read entered sets the renderer and
\* the dispatcher and its finally block puts them back
HooksAfterInner(h1, j, entered) ==
  IF entered
    THEN ReadFinally([h1 EXCEPT !.currentPartialRenderer = j, !.dispatcher = "Dispatcher"],
                     [prevPartialRenderer |-> h1.currentPartialRenderer,
                      prevDispatcher |-> h1.dispatcher])
  ELSE h1

\* the pass of the loop of i that takes the call from m to m2 while the call
\* of j inside it ends in `inner`
NestedPassed(i, j, m, inner, m1, m2, entered, failed) ==
  /\ sessions' = [sessions EXCEPT ![i] = m2.s, ![j] = inner.s]
  /\ contexts' = m2.contexts
  /\ nextAvailableThreadIDs' = m2.ids
  /\ call' = [call EXCEPT !.out = m2.out, !.suspended = m2.suspended, !.pc = m2.pc]
  /\ boundaries' = [boundaries EXCEPT ![i] = BoundariesAfter(i, m1, m2)]
  /\ lastFallback' = [lastFallback EXCEPT ![i] = LastFallbackAfter(i, m1, m2)]
  /\ handed' = [handed EXCEPT ![i] = HandedAfter(i, m1)]
  /\ hooks' = IF failed THEN HooksAfterInner(PrepareToUseHooks(hooks), j, entered)
              ELSE HooksAfterRender(
                     FinishHooks(HooksAfterInner(PrepareToUseHooks(hooks), j, entered)),
                     TopFrame(m).children[TopFrame(m).childIndex + 1].type.result)
  /\ released' = [released EXCEPT ![i] = @ + Frees(m1.ids, m2.ids),
                                  ![j] = @ + Frees(m.ids, inner.ids)]
  /\ emitted' = [emitted EXCEPT ![j] = IF entered /\ ~failed THEN @ \o inner.out[1] ELSE @]
  /\ chunks' = [chunks EXCEPT ![j] = IF entered /\ ~failed THEN @ + 1 ELSE @]
  /\ raised' = [raised EXCEPT ![j] = @ \/ failed]
  /\ budgets' = [budgets EXCEPT ![j] = IF entered THEN @ \cup {Unbounded} ELSE @]

\* what the inner call that ended in `inner` makes of the pass from m: the
\* outer call goes on with the context slots and the allocator as the inner
\* call left them
NestedRan(i, j, m, inner, entered) ==
  NestedPassed(i, j, m, inner,
               [m EXCEPT !.contexts = inner.contexts, !.ids = inner.ids],
               OuterPass([m EXCEPT !.contexts = inner.contexts, !.ids = inner.ids],
                         entered /\ inner.pc = "throw"),
               entered, entered /\ inner.pc = "throw")

\* the pass of the loop of renderer i that renders a component whose body
\* calls j.read(Infinity) and drops what it returns: the whole call of j runs
\* inside the pass, between prepareToUseHooks and finishHooks of the
\* component, and an error it raises leaves the component and the read of i
ReadLoopNested(i, j) ==
  /\ call # NoCall
  /\ call.sid = i
  /\ call.pc = "loop"
  /\ j # i
  /\ sessions[j].live
  /\ NextChildReads(Machine)
  /\ NestedRan(i, j, Machine, InnerRead(j), ~sessions[j].exhausted)
  /\ UNCHANGED <<preRender, root, lastCall, threads, traversal>>

\* read returns out[0]: line 503 and the finally block
ReadReturn(i) ==
  /\ call # NoCall
  /\ call.sid = i
  /\ call.pc = "return"
  /\ emitted' = [emitted EXCEPT ![i] = @ \o call.out[1]]
  /\ chunks' = [chunks EXCEPT ![i] = @ + 1]
  /\ lastCall' = [op |-> "read", sid |-> i, result |-> "string", chunk |-> call.out[1]]
  /\ call' = NoCall
  /\ hooks' = ReadFinally(hooks, call)
  /\ UNCHANGED <<nextAvailableThreadIDs, contexts, sessions, budgets, raised, preRender,
                 root, boundaries, lastFallback,
                 threads, traversal, handed, released>>

\* read raises: the error leaves through the finally block, out is lost
ReadThrow(i) ==
  /\ call # NoCall
  /\ call.sid = i
  /\ call.pc = "throw"
  /\ raised' = [raised EXCEPT ![i] = TRUE]
  /\ lastCall' = [op |-> "read", sid |-> i, result |-> "error", chunk |-> ""]
  /\ call' = NoCall
  /\ hooks' = ReadFinally(hooks, call)
  /\ UNCHANGED <<nextAvailableThreadIDs, contexts, sessions, emitted, chunks, budgets,
                 preRender, root, boundaries, lastFallback,
                 threads, traversal, handed, released>>

\* one read with an unbounded budget on a fresh renderer over `children`:
\* the state of the call when it returns or raises
SinglePass(children, makeStaticMarkup) ==
  LET a == AllocThreadID(InitialThreadIDs)
  IN RunLoop(EnterRead(NewRenderer(children, makeStaticMarkup, a.id),
                       InitialContexts, a.ids, Unbounded))

\* the markup that read returns
SinglePassOutput(children, makeStaticMarkup) ==
  LET r == SinglePass(children, makeStaticMarkup)
  IN IF r.pc = "throw" THEN "(raises)" ELSE r.out[1]

\* one renderer, made for any root, read under any budgets
Next ==
  \/ \E children \in Roots, makeStaticMarkup \in BOOLEAN :
       Construct(1, children, makeStaticMarkup)
  \/ \E bytes \in Budgets : ReadBegin(1, bytes)
  \/ ReadLoop(1)
  \/ ReadReturn(1)
  \/ ReadThrow(1)
  \/ ReadExhausted(1)
  \/ Destroy(1)

Spec == Init /\ [][Next]_vars

\* one renderer, made for a root of host elements, scalars and wrapper types
NextDOM ==
  \/ \E children \in DOMRoots, makeStaticMarkup \in BOOLEAN :
       Construct(1, children, makeStaticMarkup)
  \/ \E bytes \in SharedBudgets : ReadBegin(1, bytes)
  \/ ReadLoop(1)
  \/ ReadReturn(1)
  \/ ReadThrow(1)
  \/ ReadExhausted(1)
  \/ Destroy(1)

SpecDOM == Init /\ [][NextDOM]_vars

\* several renderers whose calls interleave
\* how many ids the other renderers of the process are issued in all
MaxIssued == 18

\* the ids the other renderers release while others are still held
Releasable == {1, 2, 16}

\* another renderer of the process is constructed: it calls allocThreadID
AllocOther ==
  /\ threads.issued < MaxIssued
  /\ LET a == AllocThreadID(nextAvailableThreadIDs)
     IN /\ nextAvailableThreadIDs' = a.ids
        /\ threads' = [held |-> threads.held \cup {a.id},
                       issued |-> threads.issued + 1, last |-> a.id]
  /\ UNCHANGED <<contexts, sessions, call, emitted, chunks, budgets, raised,
                 preRender, root, lastCall, boundaries, lastFallback, traversal,
                 handed, hooks, released>>

\* another renderer of the process finishes: it calls freeThreadID(id)
FreeOther(id) ==
  /\ id \in threads.held
  /\ nextAvailableThreadIDs' = FreeThreadID(nextAvailableThreadIDs, id)
  /\ threads' = [threads EXCEPT !.held = @ \ {id}]
  /\ UNCHANGED <<contexts, sessions, call, emitted, chunks, budgets, raised,
                 preRender, root, lastCall, boundaries, lastFallback, traversal,
                 handed, hooks, released>>

NextAlloc ==
  \/ AllocOther
  \/ \E id \in Releasable : FreeOther(id)

SpecAlloc == Init /\ [][NextAlloc]_vars

-----------------------------------------------------------------------------
(* React.Children.forEach and React.Children.map.  A traversal in progress  *)
(* is [pc, op, input, work |-> the children still to visit, each with the   *)
(* name it has in the tree, count |-> the callback calls so far, calls,     *)
(* result |-> what map has gathered].                                       *)

\* <tag key={key} />
Keyed(tag, key) ==
  [kind |-> "element", type |-> HostType(tag), props |-> [children |-> Undefined],
   key |-> key]

\* getElementKey: "$" and the element's own key, or the index in its array
GetElementKey(node, index) ==
  IF IsValidElement(node) /\ "key" \in DOMAIN node THEN "$" \o node.key
  ELSE ToString(index)

\* what the callback is handed for a leaf, passing undefined and booleans on
InvokedRaw(node) == node

\* what the callback is handed for a leaf: null for undefined and booleans
Invoked(node) == IF node.kind \in {"undefined", "boolean"} THEN NullNode ELSE node

\* the element map puts into its result: the callback's element under the
\* name the child has in the tree
Rekeyed(node, key) == IF IsValidElement(node) THEN [key |-> key] @@ node ELSE node

\* the children of the first traversal test
TestKinds ==
  Arr(<<Keyed("div", "divNode"), Arr(<<Arr(<<Keyed("span", "spanNode")>>)>>),
        Arr(<<Keyed("a", "aNode")>>), Text(<<"s", "t", "r", "i", "n", "g">>), Num(1234),
        Bool(TRUE), Bool(FALSE), NullNode, Undefined>>)

\* the children of the nested traversal test
TestNested ==
  Arr(<<Arr(<<Keyed("div", "keyZero"), NullNode, Keyed("div", "keyTwo")>>),
        Arr(<<NullNode, Keyed("div", "keyFour")>>), Keyed("div", "keyFive")>>)

\* what the other children traversed are put together from
KidParts == { Keyed("div", "k"), X, NullNode, Bool(TRUE), Undefined,
              Arr(<<Host("b", <<>>), NullNode>>), Arr(<<Arr(<<Y>>)>>) }

\* the most items such children hold
MaxKids == 2

ChildrenInputs ==
  {TestKinds, TestNested} \cup KidParts
  \cup {Arr(a) : a \in UNION {[1 .. k -> KidParts] : k \in 0 .. MaxKids}}

\* React.Children.forEach(children, callback) or React.Children.map(children,
\* callback) with a callback that returns its argument
StartTraversal(op, children) ==
  /\ traversal = NoTraversal
  /\ traversal' = [pc |-> IF IsNullish(children) THEN "done" ELSE "run",
                   op |-> op, input |-> children,
                   work |-> <<[node |-> children, name |-> ""]>>,
                   count |-> 0, calls |-> <<>>, result |-> <<>>]
  /\ UNCHANGED <<nextAvailableThreadIDs, contexts, sessions, call, emitted, chunks,
                 budgets, raised, preRender, root, lastCall, boundaries, lastFallback,
                 threads, handed, hooks, released>>

\* the traversal visits the next child: an array is replaced by its items,
\* anything else is a leaf the callback is called for
Visit(t) ==
  LET item == Head(t.work)
      node == item.node
  IN IF node.kind = "array"
       THEN LET nextNamePrefix == IF item.name = "" THEN "." ELSE item.name \o ":"
                items == [k \in 1 .. Len(node.items) |->
                            [node |-> node.items[k],
                             name |-> nextNamePrefix \o GetElementKey(node.items[k], k - 1)]]
            IN [t EXCEPT !.work = items \o Tail(t.work)]
     ELSE LET child == Invoked(node)
              mappedChild == child
              childKey == IF item.name = "" THEN "." \o GetElementKey(child, 0)
                          ELSE item.name
          IN [t EXCEPT !.work = Tail(t.work),
                       !.calls = Append(@, [kid |-> child, index |-> t.count]),
                       !.count = @ + 1,
                       !.result = IF t.op = "map" /\ ~IsNullish(mappedChild)
                                    THEN Append(@, Rekeyed(mappedChild, childKey))
                                  ELSE @]

TraverseStep ==
  /\ traversal # NoTraversal /\ traversal.pc = "run" /\ traversal.work # <<>>
  /\ traversal' = Visit(traversal)
  /\ UNCHANGED <<nextAvailableThreadIDs, contexts, sessions, call, emitted, chunks,
                 budgets, raised, preRender, root, lastCall, boundaries, lastFallback,
                 threads, handed, hooks, released>>

\* forEach or map returns
TraverseReturn ==
  /\ traversal # NoTraversal /\ traversal.pc = "run" /\ traversal.work = <<>>
  /\ traversal' = [traversal EXCEPT !.pc = "done"]
  /\ UNCHANGED <<nextAvailableThreadIDs, contexts, sessions, call, emitted, chunks,
                 budgets, raised, preRender, root, lastCall, boundaries, lastFallback,
                 threads, handed, hooks, released>>

NextChildren ==
  \/ \E op \in {"forEach", "map"}, children \in ChildrenInputs : StartTraversal(op, children)
  \/ TraverseStep
  \/ TraverseReturn

SpecChildren == Init /\ [][NextChildren]_vars

NextShared ==
  \E i \in SessionIds :
    \/ \E children \in SharedRoots : Construct(i, children, FALSE)
    \/ \E bytes \in SharedBudgets : ReadBegin(i, bytes)
    \/ ReadLoop(i)
    \/ ReadReturn(i)
    \/ ReadThrow(i)
    \/ ReadExhausted(i)
    \/ Destroy(i)

SpecShared == Init /\ [][NextShared]_vars

\* the budgets of the reads of SpecHooks: none, less than none, one character
\* and no limit
HookBudgets == {-1, 0, 1, Unbounded}

\* how many reads a renderer of SpecHooks has returned from when a read
\* without a budget is still made: such reads can be repeated for ever
MaxChunks == 3

\* the roots whose components use the stateful primitives or call back into
\* a renderer
HookRoots ==
  { Forwarded("usesState", X),
    Arr(<<UsesState(Y), Forwarded("usesStateThrows", NullNode)>>),
    UsesState(UsesStateThrows),
    Suspense(Text(<<"f">>), <<Forwarded("defers", NullNode), X>>),
    Suspense(UsesState(X), <<Host("b", <<X>>), Defers, Throws>>),
    Destroys,
    Arr(<<Destroys, Provider("A", V1, <<Consumer("A")>>)>>),
    Provider("A", V1, <<Returns(Destroys), Consumer("A")>>),
    Arr(<<Reads(X), Reads(Y)>>),
    Provider("A", V2, <<Consumer("A"), Reads(Consumer("A")), UsesState(X)>>),
    Suspense(Text(<<"f">>), <<Reads(X), Defers>>),
    Suspense(Text(<<"f">>), <<Throws, X>>) }

\* a renderer whose components call back into it or into the other renderer,
\* which is made first and read by the components only
NextHooks ==
  \/ \E children \in SharedRoots : Construct(2, children, FALSE)
  \/ \E children \in HookRoots :
       sessions[2].live /\ Construct(1, children, FALSE)
  \/ \E bytes \in HookBudgets :
       (bytes > 0 \/ chunks[1] < MaxChunks) /\ ReadBegin(1, bytes)
  \/ ReadLoop(1)
  \/ ReadLoopNested(1, 2)
  \/ ReadReturn(1)
  \/ ReadThrow(1)
  \/ ReadExhausted(1)
  \/ Destroy(1)

SpecHooks == Init /\ [][NextHooks]_vars

\* the roots in which every component returns or defers: deferrals inside
\* boundaries, in fallbacks, in nested boundaries and outside any boundary
LiveRoots ==
  { Arr(<<X, Host("b", <<Y>>), Returns(Arr(<<X, Returns(Y)>>))>>),
    Suspense(Fragment(<<Text(<<"f">>), Consumer("A")>>),
             <<Host("div", <<X>>), Provider("A", V1, <<Provider("B", V2, <<Defers>>)>>)>>),
    Suspense(Text(<<"o">>), <<Suspense(Text(<<"i">>), <<X, Defers>>), Y, Defers>>),
    Suspense(Text(<<"o">>), <<X, Suspense(Defers, <<Y, Defers>>)>>),
    Suspense(Defers, <<X, Defers>>),
    SuspenseNoFallback(<<X, Defers>>),
    Arr(<<X, Defers, Forwarded("defers", NullNode), Y>>),
    SelectA(<<Suspense(OptionA, <<OptionA, Defers>>)>>) }

\* the calls of a caller that reads a renderer again and again with budgets
\* of at least 1, whatever the reads return or raise
NextLive ==
  \/ \E children \in LiveRoots, makeStaticMarkup \in BOOLEAN :
       Construct(1, children, makeStaticMarkup)
  \/ \E bytes \in Budgets : ReadBegin(1, bytes)
  \/ ReadLoop(1)
  \/ ReadReturn(1)
  \/ ReadThrow(1)
  \/ ReadExhausted(1)

\* a pass of the loop of read is due: ReadLoop(1) is enabled, and every pass
\* moves a cursor, changes the stack or leaves the loop
LoopPending == call # NoCall /\ call.sid = 1 /\ call.pc = "loop"

\* the caller goes on reading (weak fairness of the call of read), and a call
\* of read runs to its end: JavaScript runs the loop and the finally block to
\* completion.  The fairness of the loop is weak fairness of ReadLoop(1)
\* written out, with LoopPending for ENABLED <<ReadLoop(1)>>_vars
SpecLive ==
  /\ Init /\ [][NextLive]_vars
  /\ WF_vars(\E bytes \in Budgets : ReadBegin(1, bytes))
  /\ WF_vars(ReadReturn(1))
  /\ WF_vars(ReadThrow(1))
  /\ ([]<>(~LoopPending) \/ []<><<ReadLoop(1)>>_vars)

-----------------------------------------------------------------------------
(* Properties *)

Live(i) == sessions[i].live

\* session i was read until its frame stack was empty and the read that
\* found it empty returned, and none of its reads raised
Drained(i) ==
  /\ Live(i) /\ sessions[i].exhausted /\ Len(sessions[i].stack) = 0
  /\ ~raised[i] /\ (call = NoCall \/ call.sid # i)

\* every slot at the thread id of session i holds its pre-render value
Restored(i) ==
  \A c \in ContextNames : contexts[c][sessions[i].threadID] = preRender[i][c]

\* C1: the chunks a session returned under any budgets, joined, are the
\* markup of one read with an unbounded budget on a fresh session over the
\* same root
C1_ChunksJoinToSinglePass ==
  Drained(1) =>
    emitted[1] = SinglePassOutput(root[1], sessions[1].makeStaticMarkup)

C1_Witness ==
  /\ Drained(1) /\ chunks[1] >= 4 /\ budgets[1] = {1, 2}
  /\ root[1] = Suspense(Text(<<"o">>), <<Suspense(Text(<<"i">>), <<X, Defers>>), Y, Defers>>)

\* the reads of session 1 all had budget b, below the length of the output
ConstantBudget(b) ==
  Drained(1) /\ budgets[1] = {b} /\ b < Len(emitted[1])

\* the least integer not below a / b
CeilDiv(a, b) == (a + b - 1) \div b

\* C2, as claimed: under a constant budget b below the output's length L,
\* exactly ceil(L / b) reads return markup
C2_ExactlyCeil ==
  \A b \in Budgets :
    ConstantBudget(b) => chunks[1] = CeilDiv(Len(emitted[1]), b)

\* C2, amended: at most floor(L / b) + 1 reads return a string, since every
\* read but the last returns at least b characters
C2_AtMostFloorPlusOne ==
  \A b \in Budgets :
    ConstantBudget(b) => chunks[1] <= (Len(emitted[1]) \div b) + 1

C2_Witness ==
  /\ ConstantBudget(2) /\ chunks[1] = 3 /\ Len(emitted[1]) = 4
  /\ chunks[1] = (Len(emitted[1]) \div 2) + 1

\* the step is a call on session i that begins and ends in this step
WholeCall(i, op) ==
  /\ call = NoCall /\ call' = NoCall
  /\ lastCall'.op = op /\ lastCall'.sid = i

\* C3: the exhausted flag is never cleared, no read of an exhausted session
\* enters the loop, and such a read returns null and leaves the frame
\* stack, the context slots and the allocator as they were
C3_ExhaustedIsFinal ==
  [][\A i \in SessionIds :
       (Live(i) /\ sessions[i].exhausted) =>
         /\ sessions'[i].live /\ sessions'[i].exhausted
         /\ (call = NoCall /\ call' # NoCall => call'.sid # i)
         /\ (WholeCall(i, "read") =>
               /\ lastCall'.result = "null"
               /\ UNCHANGED <<sessions, contexts, nextAvailableThreadIDs>>)]_vars

C3_Witness ==
  /\ lastCall.op = "read" /\ lastCall.result = "null" /\ lastCall.sid = 1
  /\ Len(sessions[1].stack) > 0 /\ sessions[1].contextIndex >= 0

\* C4: destroy() on an exhausted session, be it destroyed or drained,
\* changes no renderer, no context slot and not the allocator
C4_DestroyIdempotent ==
  [][\A i \in SessionIds :
       (Live(i) /\ sessions[i].exhausted /\ WholeCall(i, "destroy")) =>
         UNCHANGED <<sessions, contexts, nextAvailableThreadIDs>>]_vars

C4_Witness ==
  /\ lastCall.op = "destroy" /\ lastCall.result = "already" /\ lastCall.sid = 1
  /\ sessions[1].contextIndex >= 0

\* C5: after a session was read to exhaustion without error, every context
\* slot holds at its id the value it had before the session's first read
C5_DrainedRestores == \A i \in {1} : Drained(i) => Restored(i)

C5_Witness ==
  /\ Drained(1)
  /\ root[1] = Arr(<<Provider("A", V1, <<Consumer("A"), Provider("A", V2, <<Consumer("A")>>),
                                         Consumer("A")>>),
                     Provider("A", V1, <<Consumer("A"), Provider("A", V2, <<Consumer("A")>>),
                                         Consumer("A")>>)>>)

\* C6: after destroy() on a session that was not exhausted, whatever
\* providers it had installed, every context slot holds at its id the
\* pre-render value
C6_DestroyRestores ==
  \A i \in {1} :
    (Live(i) /\ sessions[i].exhausted /\ Len(sessions[i].stack) > 0) => Restored(i)

C6_Witness ==
  /\ sessions[1].live /\ sessions[1].exhausted
  /\ sessions[1].contextIndex >= 1
  /\ sessions[1].contextStack[1] = sessions[1].contextStack[2]

\* the frame was pushed for a consumer of context c
IsConsumerFrame(frame, c) ==
  /\ frame.type.t = "element"
  /\ frame.type.element.type.tt = "object"
  /\ frame.type.element.type.typeof = "REACT_CONTEXT_TYPE"
  /\ frame.type.element.type.context = c

\* the frame was pushed for a provider of context c
IsProviderFrameOf(frame, c) ==
  IsProviderFrame(frame) /\ frame.type.element.type.context = c

\* the value of the nearest provider of c below position k of the stack of
\* session i, or the pre-render value of c when no provider encloses k
EnclosingValue(i, k, c) ==
  LET stack == sessions[i].stack
      below == {j \in 1 .. (k - 1) : IsProviderFrameOf(stack[j], c)}
  IN IF below = {} THEN preRender[i][c]
     ELSE LET j == CHOOSE x \in below : \A y \in below : y <= x
          IN stack[j].type.element.props.value

\* C7: whatever the interleaving of the calls of the sessions, the value a
\* consumer of a session received is that of the nearest enclosing provider
\* of its own session, or the pre-render value when it has none
C7_ConsumerSeesOwnProviders ==
  \A i \in SessionIds : Live(i) =>
    \A k \in 1 .. Len(sessions[i].stack) : \A c \in ContextNames :
      IsConsumerFrame(sessions[i].stack[k], c) =>
        sessions[i].stack[k].children = <<Text(EnclosingValue(i, k, c))>>

C7_Witness ==
  /\ Live(1) /\ Live(2) /\ ~sessions[1].exhausted /\ ~sessions[2].exhausted
  /\ sessions[1].contextIndex >= 0 /\ sessions[2].contextIndex >= 0
  /\ contexts["A"][sessions[1].threadID] # contexts["A"][sessions[2].threadID]
  /\ IsConsumerFrame(sessions[1].stack[Len(sessions[1].stack)], "A")
  /\ lastCall.sid = 2 /\ lastCall.op = "read"

\* C8, as claimed: the suspended boundary contributes its opening marker,
\* the markup of its fallback alone and the closing marker
C8_OpeningMarkerThenFallback ==
  \A i \in {1} : (~raised[i] /\ lastFallback[i].set) =>
    lastFallback[i].actual =
      lastFallback[i].base \o "<!--$-->" \o lastFallback[i].alone \o "<!--/$-->"

\* C8, amended: the suspended boundary contributes the fallback-state
\* marker, the markup of its fallback alone and the closing marker, after
\* what was put out before the boundary, and nothing its children produced
C8_FallbackMarkerThenFallback ==
  \A i \in {1} : (~raised[i] /\ lastFallback[i].set) =>
    lastFallback[i].actual =
      lastFallback[i].base \o "<!--$!-->" \o lastFallback[i].alone \o "<!--/$-->"

C8_Witness ==
  /\ ~raised[1] /\ lastFallback[1].set
  /\ lastFallback[1].base = "x" /\ lastFallback[1].alone = "f"
  /\ budgets[1] = {1}

\* the evaluation of the next child of the top frame defers
NextChildDefers(m) ==
  LET frame == TopFrame(m)
      child == frame.children[frame.childIndex + 1]
  IN child.kind # "text" /\ Resolve(child).thrown = "thenable"

\* a boundary frame is on the stack
BoundaryOpen(s) == \E k \in 1 .. Len(s.stack) : IsSuspenseFrame(s.stack[k])

\* C9: when the evaluation of a child defers while no boundary frame is on
\* the stack, the read raises: no frame is pushed or replaced and nothing
\* is switched to a fallback
C9_DeferralWithoutBoundaryRaises ==
  [][(/\ call # NoCall /\ call.pc = "loop"
      /\ Rendering(Machine) /\ NextChildDefers(Machine)
      /\ ~BoundaryOpen(sessions[call.sid]))
     => /\ call'.pc = "throw"
        /\ ~call'.suspended
        /\ Len(sessions'[call.sid].stack) = Len(sessions[call.sid].stack)
        /\ boundaries' = boundaries]_vars

\* the read raises on a deferral in the fallback of an outermost boundary
C9_Witness ==
  /\ call # NoCall /\ call.pc = "throw"
  /\ Len(boundaries[1]) = 1 /\ boundaries[1][1].fallback
  /\ ~BoundaryOpen(sessions[1])
  /\ root[1] = Suspense(Defers, <<X, Defers>>)

IsFragment(n) == IsValidElement(n) /\ n.type = SymbolType("REACT_FRAGMENT_TYPE")

\* a child of the Fragment is, once resolved, a host element
HoldsHost(n) ==
  \E k \in 1 .. Len(n.props.children.items) :
    LET r == Resolve(n.props.children.items[k])
    IN r.thrown = "none" /\ IsValidElement(r.child) /\ r.child.type.tt = "string"

RECURSIVE Spliced(_, _)
RECURSIVE SplicedNode(_)
\* the items with every Fragment replaced by its children, in place, at any
\* depth; with keep, a Fragment among the items that holds a host element
\* stays (what is below it is spliced)
Spliced(items, keep) ==
  IF Len(items) = 0 THEN <<>>
  ELSE LET h == Head(items)
       IN (IF IsFragment(h)
             THEN IF keep /\ HoldsHost(h)
                    THEN <<Fragment(Spliced(h.props.children.items, FALSE))>>
                  ELSE Spliced(h.props.children.items, keep)
           ELSE <<SplicedNode(h)>>)
          \o Spliced(Tail(items), keep)

\* the node with every Fragment below it replaced by its children
SplicedNode(n) ==
  IF n.kind = "array" THEN Arr(Spliced(n.items, FALSE))
  ELSE IF ~IsValidElement(n) THEN n
  ELSE IF IsFragment(n) THEN Arr(Spliced(n.props.children.items, FALSE))
  ELSE IF n.type.tt = "function"
    THEN IF n.type.body = "returns"
           THEN Element(FunctionType("returns", SplicedNode(n.type.result)), n.props)
         ELSE n
  ELSE IF n.props.children.kind # "array" THEN n
  ELSE IF "fallback" \in DOMAIN n.props
    THEN Element(n.type, [n.props EXCEPT !.children = Arr(Spliced(@.items, FALSE)),
                                         !.fallback = SplicedNode(@)])
  ELSE Element(n.type, [n.props EXCEPT !.children = Arr(Spliced(@.items, FALSE))])

\* the root with its Fragments replaced by their children; the items of a
\* root array and the children of a root Fragment, which the constructor
\* unwraps, are children of the root frame
SplicedRoot(children, keep) ==
  IF children.kind = "array" THEN Arr(Spliced(children.items, keep))
  ELSE IF IsFragment(children) THEN Arr(Spliced(children.props.children.items, keep))
  ELSE Arr(Spliced(<<children>>, keep))

\* C10, as claimed: in either mode the output is that of the tree with
\* every Fragment replaced by its children
C10_FragmentsTransparent ==
  Drained(1) =>
    emitted[1] = SinglePassOutput(SplicedRoot(root[1], FALSE), sessions[1].makeStaticMarkup)

\* C10, amended: in static mode the output is that of the tree with every
\* Fragment replaced by its children; in dynamic mode it is that of the tree
\* with every Fragment replaced but those children of the root frame that
\* hold a host element, which is then not a root element
C10_FragmentsTransparentBelowRoot ==
  Drained(1) =>
    emitted[1] = SinglePassOutput(SplicedRoot(root[1], ~sessions[1].makeStaticMarkup),
                                  sessions[1].makeStaticMarkup)

C10_Witness ==
  /\ Drained(1) /\ ~sessions[1].makeStaticMarkup
  /\ root[1] = Host("div", <<Fragment(<<X, Host("i", <<>>)>>), Fragment(<<Y>>)>>)
  /\ emitted[1] = "<div data-reactroot=\"\">x<i></i>y</div>"

RECURSIVE ScalarMarkup(_, _, _, _, _)
\* the markup of items that are strings, numbers, Fragments and host
\* elements with children only: [out |-> the markup, prev |-> the last thing
\* put out was a text].  With `separate`, a text that follows a text with no
\* element boundary between them is preceded by the comment marker.
ScalarMarkup(items, static, separate, prev, atRoot) ==
  IF Len(items) = 0 THEN [out |-> "", prev |-> prev]
  ELSE
    LET h == Head(items)
        first ==
          IF h.kind \in {"text", "number"}
            THEN IF Len(Stringified(h)) = 0 THEN [out |-> "", prev |-> prev]
                 ELSE [out |-> (IF separate /\ prev THEN "<!-- -->" ELSE "")
                                 \o EscapeTextForBrowser(Stringified(h)),
                       prev |-> TRUE]
          ELSE IF h.type.tt = "string"
            THEN [out |-> "<" \o h.type.tag
                            \o (IF atRoot /\ ~static THEN " data-reactroot=\"\"" ELSE "")
                            \o ">"
                            \o ScalarMarkup(h.props.children.items, static, separate,
                                            FALSE, FALSE).out
                            \o "</" \o h.type.tag \o ">",
                  prev |-> FALSE]
          ELSE ScalarMarkup(h.props.children.items, static, separate, prev, FALSE)
        rest == ScalarMarkup(Tail(items), static, separate, first.prev, atRoot)
    IN [out |-> first.out \o rest.out, prev |-> rest.prev]

\* C11, as claimed: every string and number is put out escaped, and in
\* either mode a text that follows a text with no element boundary between
\* them is preceded by the marker <!-- -->
C11_TextsAlwaysSeparated ==
  (Drained(1) /\ root[1] \in TextRoots) =>
    emitted[1] = ScalarMarkup(root[1].items, sessions[1].makeStaticMarkup, TRUE,
                              FALSE, TRUE).out

\* C11, amended: every string and number is put out escaped, an empty
\* string as nothing; in dynamic mode a non-empty text that follows a
\* non-empty text with no element boundary between them is preceded by the
\* marker <!-- -->, and in static mode no marker is put out
C11_TextsSeparatedInDynamicMode ==
  (Drained(1) /\ root[1] \in TextRoots) =>
    emitted[1] = ScalarMarkup(root[1].items, sessions[1].makeStaticMarkup,
                              ~sessions[1].makeStaticMarkup, FALSE, TRUE).out

C11_Witness ==
  /\ Drained(1) /\ ~sessions[1].makeStaticMarkup
  /\ root[1] = Arr(<<Amp, Num(0), Amp>>)
  /\ emitted[1] = "&amp;<!-- -->0<!-- -->&amp;"

\* C12, as claimed: the div with id "a", hidden true and the children "x"
\* and "y" is rendered, as a root, to <div id="a" hidden="">x<!-- -->y</div>
C12_DivScenarioMarkup ==
  (Drained(1) /\ root[1] = DivScenario) =>
    emitted[1] = "<div id=\"a\" hidden=\"\">x<!-- -->y</div>"

\* the attribute the root element gets in dynamic mode
RootAttribute(static) == IF static THEN "" ELSE " data-reactroot=\"\""

\* C13: an input given both checked and defaultChecked is put out with the
\* attribute checked exactly when its checked prop is true, whatever
\* defaultChecked is, and with no attribute for defaultChecked
C13_CheckedWins ==
  \A c, d \in BOOLEAN :
    (Drained(1) /\ root[1] = InputChecked(c, d)) =>
      emitted[1] = "<input" \o (IF c THEN " checked=\"\"" ELSE "")
                     \o RootAttribute(sessions[1].makeStaticMarkup) \o "/>"

C13_Witness ==
  /\ Drained(1) /\ ~sessions[1].makeStaticMarkup
  /\ root[1] = InputChecked(FALSE, TRUE)
  /\ emitted[1] = "<input data-reactroot=\"\"/>"

\* the resolved value of an option: its value prop as a string, else the
\* text of its children
ResolvedValue(option) ==
  IF "value" \in DOMAIN option.props /\ ~IsNullish(option.props.value)
    THEN Stringified(option.props.value)
  ELSE FlattenOptionChildren(option.props.children).chars

\* the resolved value is the controlling value sv, or one of its entries
MatchesSelect(option, sv) ==
  IF IsNullish(sv) THEN FALSE
  ELSE IF sv.kind = "array"
    THEN ResolvedValue(option) \in {Stringified(sv.items[j]) : j \in 1 .. Len(sv.items)}
  ELSE ResolvedValue(option) = Stringified(sv)

\* the option's own selected prop is set
OwnSelected(option) ==
  "selected" \in DOMAIN option.props /\ Truthy(option.props.selected)

\* the markup of a select controlled by sv over the options opts, as a root,
\* where Marked(option) says which options are marked selected
SelectMarkup(sv, opts, static, Marked(_)) ==
  LET OptionMarkup(o) ==
        "<option" \o (IF Marked(o) THEN " selected=\"\"" ELSE "") \o ">"
          \o EscapeTextForBrowser(FlattenOptionChildren(o.props.children).chars)
          \o "</option>"
      All[k \in 0 .. Len(opts)] == IF k = 0 THEN "" ELSE All[k - 1] \o OptionMarkup(opts[k])
  IN "<select" \o (IF sv.kind = "array" THEN " multiple=\"\"" ELSE "")
       \o RootAttribute(static) \o ">" \o All[Len(opts)] \o "</select>"

C15_NoMarkupAfterError ==
  [][\A i \in {1} : raised[i] => emitted'[i] = emitted[i]]_vars

\* the ids on the allocator's free list, walked from its head in slot 0
RECURSIVE FreeFrom(_, _, _)
FreeFrom(ids, id, fuel) ==
  IF id = 0 \/ fuel = 0 THEN {}
  ELSE {id} \cup FreeFrom(ids, ids[id], fuel - 1)

FreeIDs(ids) == FreeFrom(ids, ids[0], Cardinality(DOMAIN ids))

\* C16: whenever the loop of a read is not running, a session whose frame
\* stack is empty is exhausted and its thread id is back on the free list
C16_EmptyStackIsExhausted ==
  \A i \in {1} :
    (/\ Live(i) /\ Len(sessions[i].stack) = 0
     /\ (call = NoCall \/ call.sid # i \/ call.pc # "loop"))
    => /\ sessions[i].exhausted
       /\ sessions[i].threadID \in FreeIDs(nextAvailableThreadIDs)

\* the read that emptied the stack is about to return the markup it gathered
C16_Witness ==
  /\ call # NoCall /\ call.sid = 1 /\ call.pc = "return"
  /\ Len(sessions[1].stack) = 0 /\ sessions[1].exhausted
  /\ call.out[1] # "" /\ chunks[1] = 1
  /\ sessions[1].threadID \in FreeIDs(nextAvailableThreadIDs)


\* C17: an id allocThreadID returns is never 0 and is held by no renderer at
\* that moment, also when the array had to grow, and the first id is 1
C17_AllocatedIdIsFresh ==
  [][threads'.issued = threads.issued + 1
     => /\ threads'.last # 0
        /\ threads'.last \notin threads.held
        /\ (threads.issued = 0 => threads'.last = 1)]_vars

\* all fifteen ids of the first array were held, the array has grown and
\* ids of the grown array have been handed out
C17_Witness ==
  /\ threads.held = 1 .. 17
  /\ Cardinality(DOMAIN nextAvailableThreadIDs) = 2 * InitialThreadCount
  /\ threads.issued = 17 /\ threads.last = 17


\* what the next child of the top frame resolves to
NextChildResolved(m) ==
  LET frame == TopFrame(m)
  IN Resolve(frame.children[frame.childIndex + 1])

\* the $$typeof values of the object types render knows
ObjectTypes == {"REACT_FORWARD_REF_TYPE", "REACT_MEMO_TYPE", "REACT_PROVIDER_TYPE",
                "REACT_CONTEXT_TYPE", "REACT_FUNDAMENTAL_TYPE", "REACT_LAZY_TYPE"}

\* a portal, another object with a type tag that is no element, or an element
\* whose type is of no kind render knows
Unrecognised(node) ==
  \/ node.kind \in {"portal", "unknown"}
  \/ /\ IsValidElement(node)
     /\ node.type.tt \notin {"string", "function"}
     /\ ~(/\ node.type.tt = "symbol"
          /\ node.type.sym \in FragmentLike \cup {"REACT_SUSPENSE_TYPE", "REACT_SCOPE_TYPE"})
     /\ ~(node.type.tt = "object" /\ node.type.typeof \in ObjectTypes)

\* C18: when the next child resolves to a portal, to another object with a
\* type tag that is no element, or to an element of no recognised type, the
\* read raises: nothing is added to the output and no frame is pushed
C18_UnrecognisedNodeRaises ==
  [][(/\ call # NoCall /\ call.pc = "loop"
      /\ Rendering(Machine)
      /\ NextChildResolved(Machine).thrown = "none"
      /\ Unrecognised(NextChildResolved(Machine).child))
     => /\ call'.pc = "throw"
        /\ call'.out = call.out
        /\ Len(sessions'[call.sid].stack) = Len(sessions[call.sid].stack)
        /\ \A k \in 1 .. Len(sessions[call.sid].stack) :
             /\ sessions'[call.sid].stack[k].children = sessions[call.sid].stack[k].children
             /\ sessions'[call.sid].stack[k].type = sessions[call.sid].stack[k].type]_vars

\* the read raises on an element of an unknown object type, the first child
\* of a host element whose open tag was put out
C18_Witness ==
  /\ call # NoCall /\ call.sid = 1 /\ call.pc = "throw"
  /\ Len(sessions[1].stack) = 2
  /\ TopFrame(Machine).childIndex = 1
  /\ TopFrame(Machine).children[1] = Element(UnknownObjectType, [children |-> NullNode])
  /\ call.out[1] = "<b data-reactroot=\"\">"


RECURSIVE LeavesOf(_)
\* the leaves of children, depth-first, as the callback is to see them
LeavesOf(v) ==
  IF v.kind = "array"
    THEN IF Len(v.items) = 0 THEN <<>>
         ELSE LeavesOf(Head(v.items)) \o LeavesOf(Arr(Tail(v.items)))
  ELSE IF v.kind \in {"null", "undefined", "boolean"} THEN <<NullNode>>
  ELSE <<v>>

\* the calls of the callback a traversal of children is to make
ExpectedCalls(children) ==
  IF IsNullish(children) THEN <<>>
  ELSE LET leaves == LeavesOf(children)
       IN [k \in 1 .. Len(leaves) |-> [kid |-> leaves[k], index |-> k - 1]]

\* a node without the key it carries
Unkeyed(node) ==
  IF IsValidElement(node) THEN [f \in DOMAIN node \ {"key"} |-> node[f]] ELSE node

IsPrefix(s, t) == Len(s) <= Len(t) /\ s = SubSeq(t, 1, Len(s))

RenderingIn(i) == call # NoCall /\ call.sid = i /\ call.pc = "loop" /\ Rendering(Machine)

\* the loop of a read of session i is about to pop the top frame
PoppingIn(i) == call # NoCall /\ call.sid = i /\ call.pc = "loop" /\ Popping(Machine)

\* C20: while a frame is on the stack its children stay what they were and
\* its cursor stays within 0 .. the number of children; the cursor moves only
\* when a child of the frame is visited, by exactly one, and a frame that
\* takes the place of a popped one starts at 0
C20_CursorAdvancesByOne ==
  [][\A i \in {1} : (Live(i) /\ sessions'[i].live) =>
       LET old == sessions[i].stack
           new == sessions'[i].stack
       IN /\ \A k \in 1 .. Len(new) :
               /\ new[k].childIndex \in 0 .. Len(new[k].children)
               /\ k > Len(old) => new[k].childIndex = 0
               /\ k <= Len(old) =>
                    \/ new[k] = old[k] /\ ~(k = Len(old) /\ RenderingIn(i))
                    \/ /\ k = Len(old) /\ RenderingIn(i)
                       /\ new[k] = [old[k] EXCEPT !.childIndex = @ + 1]
                    \/ /\ k = Len(old) /\ PoppingIn(i)
                       /\ new[k].childIndex = 0
          /\ RenderingIn(i) => Len(new) >= Len(old)]_vars

\* the cursor of the top frame has passed its two children while the frame
\* below is between its children
C20_Witness ==
  /\ Live(1) /\ Len(sessions[1].stack) = 2
  /\ sessions[1].stack[2].childIndex = 2 /\ Len(sessions[1].stack[2].children) = 2
  /\ sessions[1].stack[1].childIndex = 1 /\ Len(sessions[1].stack[1].children) = 2
  /\ call # NoCall /\ call.sid = 1 /\ call.pc = "loop"


\* a read call of session i is in progress
Reading(i) == call # NoCall /\ call.sid = i

\* C21: while a read of a session runs, its array of buffer levels has
\* suspenseDepth levels above the base level, and between the reads of the
\* session, when no buffer exists, suspenseDepth is 0
C21_LevelsMatchSuspenseDepth ==
  \A i \in {1} : Live(i) =>
    IF Reading(i) THEN Len(call.out) = sessions[i].suspenseDepth + 1
    ELSE sessions[i].suspenseDepth = 0


RECURSIVE Unwrapped(_)
\* what a node is once the function components around it have returned
Unwrapped(node) ==
  IF IsValidElement(node) /\ node.type.tt = "function" /\ node.type.body = "returns"
    THEN Unwrapped(node.type.result)
  ELSE node

\* the context values in effect below node: a provider sets its own
EnvBelow(node, env) ==
  LET n == Unwrapped(node)
  IN IF IsValidElement(n) /\ n.type.tt = "object" /\ n.type.typeof = "REACT_PROVIDER_TYPE"
       THEN [env EXCEPT ![n.type.context] = n.props.value]
     ELSE env

\* the children of the frame pushed for a node of the trees of Roots that
\* renders without deferring or raising, under the context values env; a
\* boundary stays on its primary children
ChildListOf(node, env) ==
  LET n == Unwrapped(node)
  IN IF n.kind \in {"text", "number"} THEN IF n = node THEN <<>> ELSE <<n>>
     ELSE IF ~IsValidElement(n) THEN ToArray(n)
     ELSE IF n.type.tt = "object" /\ n.type.typeof = "REACT_CONTEXT_TYPE"
       THEN <<Text(env[n.type.context])>>
     ELSE ToArray(n.props.children)

RECURSIVE DocumentOrder(_, _)
\* the nodes of the child lists below `items`, each before its own children
\* and siblings in their order
DocumentOrder(items, env) ==
  IF Len(items) = 0 THEN <<>>
  ELSE <<Head(items)>>
       \o DocumentOrder(ChildListOf(Head(items), env), EnvBelow(Head(items), env))
       \o DocumentOrder(Tail(items), env)

\* none of the children session i handed to render deferred or raised
Undisturbed(i) ==
  \A k \in 1 .. Len(handed[i]) :
    /\ Resolve(handed[i][k].node).thrown = "none"
    /\ ~Unrecognised(Resolve(handed[i][k].node).child)

\* C22: no child of a frame is handed to render twice, and in a session that
\* drained with no deferral and no error the children handed to render are
\* all the nodes of the tree, once each and in document order
C22_EachNodeHandedOnce ==
  \A i \in {1} : Live(i) =>
    /\ \A a, b \in 1 .. Len(handed[i]) : a # b => handed[i][a] # handed[i][b]
    /\ (Drained(i) /\ Undisturbed(i)) =>
         [k \in 1 .. Len(handed[i]) |-> handed[i][k].node]
           = DocumentOrder(FlattenTopLevelChildren(root[i]), preRender[i])

\* a session drained over several reads after it handed nested providers,
\* their consumers and a host element's children to render
C22_Witness ==
  /\ Drained(1) /\ Undisturbed(1) /\ chunks[1] >= 3
  /\ Len(handed[1]) = 9
  /\ \E k \in 1 .. Len(handed[1]) : handed[1][k].node = Text(V2)
  /\ \E k \in 1 .. Len(handed[1]) : Len(handed[1][k].stack) = 3


\* an element whose type is a context: a consumer
IsConsumerElement(node) ==
  IsValidElement(node) /\ node.type.tt = "object" /\ node.type.typeof = "REACT_CONTEXT_TYPE"

\* C23: the children-function of a consumer is called with the value of the
\* nearest provider of its context among the frames on the stack of its
\* session, providers popped before no longer counting, and with the
\* pre-render value when no such frame is on the stack
C23_ConsumerReceivesNearestProvider ==
  [][\A i \in {1} :
       (/\ RenderingIn(i)
        /\ NextChildResolved(Machine).thrown = "none"
        /\ IsConsumerElement(NextChildResolved(Machine).child))
       => LET c == NextChildResolved(Machine).child.type.context
              h == Len(sessions[i].stack)
              new == sessions'[i].stack
          IN /\ Len(new) = h + 1
             /\ new[h + 1].children = <<Text(EnclosingValue(i, h + 1, c))>>]_vars

\* a consumer has received the value of the outer provider after the inner
\* provider of the same context, whose value an earlier consumer received,
\* was popped
C23_Witness ==
  /\ Live(1) /\ Len(sessions[1].stack) = 3
  /\ IsConsumerFrame(sessions[1].stack[3], "A")
  /\ sessions[1].stack[3].children = <<Text(V1)>>
  /\ IsProviderFrameOf(sessions[1].stack[2], "A")
  /\ sessions[1].stack[2].childIndex = 3
  /\ \E k \in 1 .. Len(handed[1]) : handed[1][k].node = Text(V2)
  /\ sessions[1].contextIndex = 0


\* the provider frames on a stack, bottom first
ProviderFrames(stack) == SelectSeq(stack, IsProviderFrame)

\* C24: between the passes of the loop, and between the reads, the session
\* has recorded as many contexts as provider frames are on its stack, and
\* the j-th recorded context is that of the j-th provider frame from the
\* bottom: the record popped with a provider frame is always its own
C24_ContextStackMirrorsProviderFrames ==
  \A i \in {1} : Live(i) =>
    LET frames == ProviderFrames(sessions[i].stack)
    IN /\ sessions[i].contextIndex + 1 = Len(frames)
       /\ \A j \in 1 .. Len(frames) :
            sessions[i].contextStack[j] = frames[j].type.element.type.context

\* a suspension is popping frames: the provider of B went with its record
\* and the provider of A, now the top frame, still has its own
C24_Witness ==
  /\ Reading(1) /\ call.pc = "loop" /\ call.suspended
  /\ IsProviderFrameOf(sessions[1].stack[Len(sessions[1].stack)], "A")
  /\ sessions[1].contextIndex = 0 /\ sessions[1].contextStack[1] = "A"
  /\ \E k \in 1 .. Len(handed[1]) :
       IsValidElement(handed[1][k].node) /\ handed[1][k].node.type = ProviderType("B")


\* C25: while a suspension unwinds, each pass of the loop pops the top frame
\* only; frames that are no boundary go without a trace below the current
\* buffer level, and the first boundary frame ends the unwinding: its
\* fallback frame takes its place, suspenseDepth goes down by one, the
\* boundary's buffer level is dropped, the fallback-state marker is added to
\* the level below, and the frames and levels further down stay as they are
C25_SuspensionUnwindsToNearestBoundary ==
  [][\A i \in {1} : (PoppingIn(i) /\ call.suspended) =>
       LET old == sessions[i].stack
           h == Len(old)
           top == old[h]
           depth == sessions[i].suspenseDepth
       IN IF IsSuspenseFrame(top)
            THEN /\ sessions'[i].stack = SubSeq(old, 1, h - 1) \o <<top.fallbackFrame>>
                 /\ sessions'[i].suspenseDepth = depth - 1
                 /\ ~call'.suspended /\ call'.pc = "loop"
                 /\ Len(call'.out) = Len(call.out) - 1
                 /\ Level(call'.out, depth - 1) = Level(call.out, depth - 1) \o "<!--$!-->"
                 /\ \A l \in 0 .. (depth - 2) : Level(call'.out, l) = Level(call.out, l)
          ELSE /\ sessions'[i].stack = SubSeq(old, 1, h - 1)
               /\ sessions'[i].suspenseDepth = depth
               /\ call'.suspended /\ call'.pc = "loop"
               /\ \A l \in 0 .. (depth - 1) : Level(call'.out, l) = Level(call.out, l)]_vars

\* the inner of two boundaries switched to its fallback: the outer boundary
\* frame is still on the stack and its level holds its opening marker and
\* the marker of the inner fallback
C25_Witness ==
  /\ Reading(1) /\ call.pc = "loop" /\ ~call.suspended /\ ~raised[1]
  /\ Len(sessions[1].stack) = 3 /\ sessions[1].suspenseDepth = 1
  /\ IsSuspenseFrame(sessions[1].stack[2])
  /\ sessions[1].stack[3] = Frame(NullType, "html", <<Text(<<"i">>)>>, "<!--/$-->")
  /\ call.out = <<"", "<!--$--><!--$!-->">>


\* the history entry of the boundary frame on top of the stack of session i
TopBoundary(i) == boundaries[i][Len(boundaries[i])]

\* the frames a suspension pops above the boundary restore what they set:
\* a provider frame its slot, a select frame the (cleared) select value
UnwindingRestores(i) ==
  LET old == sessions[i].stack
      h == Len(old)
      top == old[h]
      tid == sessions[i].threadID
  IN /\ IsProviderFrame(top) =>
          contexts'[top.type.element.type.context][tid]
            = EnclosingValue(i, h, top.type.element.type.context)
     /\ top.type = TagType("select") => sessions'[i].currentSelectValue = NullNode
     /\ top.type # TagType("select") =>
          sessions'[i].currentSelectValue = sessions[i].currentSelectValue
     /\ IsSuspenseFrame(top) =>
          \A c \in ContextNames : contexts'[c][tid] = EnclosingValue(i, h, c)

\* C26 as stated: when a suspension has unwound to the boundary, every
\* context slot and the select value are those in effect at the boundary
C26_FallbackSeesBoundaryState ==
  [][\A i \in {1} : (PoppingIn(i) /\ call.suspended) =>
       /\ UnwindingRestores(i)
       /\ (IsSuspenseFrame(TopFrame(Machine)) /\ Len(boundaries[i]) > 0) =>
            sessions'[i].currentSelectValue = TopBoundary(i).select]_vars

\* C26: while a suspension unwinds, each popped provider frame restores its
\* slot and each popped select frame sets the select value to null; the
\* fallback is rendered with the context values in effect at the boundary,
\* and with the select value in effect at the boundary unless a select frame
\* was popped inside the boundary, in which case the select value is null
C26_FallbackSeesContextsAndClearedSelect ==
  [][\A i \in {1} : (PoppingIn(i) /\ call.suspended) =>
       /\ UnwindingRestores(i)
       /\ (IsSuspenseFrame(TopFrame(Machine)) /\ Len(boundaries[i]) > 0) =>
            sessions'[i].currentSelectValue =
              IF TopBoundary(i).cleared THEN NullNode ELSE TopBoundary(i).select]_vars

\* a boundary inside <select defaultValue="a"> has switched to its fallback
\* after the suspension popped a select nested in it: the select value is
\* null although it was "a" at the boundary
C26_Witness ==
  /\ Reading(1) /\ call.pc = "loop" /\ ~call.suspended
  /\ Len(sessions[1].stack) = 3
  /\ sessions[1].stack[2].type = TagType("select")
  /\ sessions[1].stack[3] = Frame(NullType, "html", <<OptionA>>, "<!--/$-->")
  /\ Len(boundaries[1]) = 1 /\ boundaries[1][1].fallback
  /\ boundaries[1][1].select = Text(<<"a">>) /\ boundaries[1][1].cleared
  /\ sessions[1].currentSelectValue = NullNode


\* the child at the cursor of the top frame is a Suspense element whose
\* fallback prop is undefined
NextChildIsBareSuspense(m) ==
  LET frame == TopFrame(m)
      child == frame.children[frame.childIndex + 1]
  IN /\ child.kind = "element"
     /\ child.type = SymbolType("REACT_SUSPENSE_TYPE")
     /\ "fallback" \notin DOMAIN child.props

\* the boundary frames on the stack of session i
BoundaryFrames(i) ==
  {k \in 1 .. Len(sessions[i].stack) : IsSuspenseFrame(sessions[i].stack[k])}

\* C27: rendering a boundary without a fallback pushes the frame of a
\* transparent wrapper over its children and nothing else: no marker is
\* written, no buffer level is opened and suspenseDepth stays, so that
\* suspenseDepth counts the boundaries with a fallback only, and a deferral
\* below the wrapper suspends to the next such boundary or, when there is
\* none, makes the read raise
C27_BareBoundaryIsTransparent ==
  [][\A i \in {1} : RenderingIn(i) =>
       LET m == Machine
           old == sessions[i].stack
           h == Len(old)
           child == old[h].children[old[h].childIndex + 1]
           depth == sessions[i].suspenseDepth
       IN /\ depth = Cardinality(BoundaryFrames(i))
          /\ NextChildIsBareSuspense(m) =>
               /\ sessions'[i].stack =
                    SubSeq(old, 1, h - 1)
                    \o << [old[h] EXCEPT !.childIndex = @ + 1],
                          Frame(NullType, old[h].domNamespace,
                                ToArray(child.props.children), "") >>
               /\ sessions'[i].suspenseDepth = depth
               /\ \A l \in 0 .. depth : Level(call'.out, l) = Level(call.out, l)
               /\ boundaries'[i] = boundaries[i]
               /\ call'.pc = "loop" /\ ~call'.suspended
          /\ NextChildDefers(m) =>
               IF depth = 0 THEN call'.pc = "throw"
               ELSE call'.suspended /\ sessions'[i].suspenseDepth = depth]_vars

\* a child of a boundary without fallback deferred inside a boundary with a
\* fallback: the read is suspended with the wrapper frame on top and one
\* boundary open
C27_Witness ==
  /\ Reading(1) /\ call.pc = "loop" /\ call.suspended
  /\ Len(sessions[1].stack) = 3 /\ sessions[1].suspenseDepth = 1
  /\ IsSuspenseFrame(sessions[1].stack[2])
  /\ sessions[1].stack[3] =
       [Frame(NullType, "html", <<X, Defers>>, "") EXCEPT !.childIndex = 2]
  /\ call.out = <<"", "<!--$-->x">>


\* C28: a read(n) of a session that was not exhausted returns at least n
\* characters unless the stack became empty during the call: between calls
\* the stack of a session that is not exhausted holds a frame, and a call
\* about to return fewer than n characters has emptied it
C28_ReadFillsBudgetUnlessDrained ==
  \A i \in {1} :
    /\ (Reading(i) /\ call.pc = "return") =>
         \/ Len(call.out[1]) >= call.bytes
         \/ sessions[i].stack = <<>> /\ sessions[i].exhausted
    /\ (sessions[i].live /\ ~sessions[i].exhausted /\ call = NoCall) =>
         sessions[i].stack # <<>>

\* a second or later read with budget 2 is about to return more than two
\* characters with frames left on the stack
C28_Witness ==
  /\ Reading(1) /\ call.pc = "return" /\ call.bytes = 2
  /\ Len(call.out[1]) > 2 /\ chunks[1] >= 1
  /\ sessions[1].stack # <<>> /\ ~sessions[1].exhausted


\* the select frames on a stack
SelectFrames(stack) == {k \in 1 .. Len(stack) : stack[k].type = TagType("select")}

IsSelectElement(node) == node.kind = "element" /\ node.type = HostType("select")

\* the child at the cursor of the top frame is an option element
NextChildIsOption(m) ==
  LET frame == TopFrame(m)
      child == frame.children[frame.childIndex + 1]
  IN child.kind = "element" /\ child.type = HostType("option")

\* props.value != null ? props.value : props.defaultValue
Controlling(props) ==
  IF "value" \in DOMAIN props /\ props.value.kind \notin {"null", "undefined"}
    THEN props.value
  ELSE IF "defaultValue" \in DOMAIN props THEN props.defaultValue
  ELSE Undefined

\* the innermost select frame on the stack of session i: the element it was
\* pushed for, and whether a select was rendered (and so popped) inside it
EnclosingSelect(i) ==
  LET stack == sessions[i].stack
      ks == SelectFrames(stack)
      k == CHOOSE x \in ks : \A y \in ks : y <= x
      js == {j \in 1 .. Len(handed[i]) :
               IsSelectElement(handed[i][j].node) /\ Len(handed[i][j].stack) = k - 1}
      j == CHOOSE x \in js : \A y \in js : y <= x
  IN [element |-> handed[i][j].node,
      nested |-> \E j2 \in (j + 1) .. Len(handed[i]) : IsSelectElement(handed[i][j2].node)]

\* props without the key `value`
WithoutValue(props) == [k \in DOMAIN props \ {"value"} |-> props[k]]

\* what rendering a select and popping a select frame do to the select
\* value and to the markup: the open tag is that of the select without its
\* `value`, the select value becomes the controlling value, and null at the pop
SelectSetsAndClears(i) ==
  LET m == Machine
      top == TopFrame(m)
      child == top.children[top.childIndex + 1]
      depth == sessions[i].suspenseDepth
  IN /\ (RenderingIn(i) /\ IsSelectElement(child)) =>
          /\ sessions'[i].currentSelectValue = Controlling(child.props)
          /\ Level(call'.out, depth) =
               Level(call.out, depth)
               \o CreateOpenTagMarkup("select", "select", OwnProps(WithoutValue(child.props)),
                                      sessions[i].makeStaticMarkup,
                                      Len(sessions[i].stack) = 1)
               \o ">"
     /\ (PoppingIn(i) /\ top.type = TagType("select")) =>
          sessions'[i].currentSelectValue = NullNode

\* C29 as stated: whenever an option is rendered inside a select, the select
\* value is the controlling value of the nearest enclosing select
C29_OptionSeesNearestSelect ==
  [][\A i \in {1} :
       /\ SelectSetsAndClears(i)
       /\ (RenderingIn(i) /\ NextChildIsOption(Machine)
             /\ SelectFrames(sessions[i].stack) # {}) =>
            sessions[i].currentSelectValue = Controlling(EnclosingSelect(i).element.props)]_vars

\* C29: rendering a select sets the select value to its controlling value
\* (value if not null, else defaultValue) and puts out no value attribute;
\* popping a select frame sets it to null; so an option rendered inside a
\* select finds the controlling value of the nearest enclosing select as
\* long as no select nested in that select has been rendered before it, and
\* null after one has
C29_OptionSeesNearestSelectUnlessCleared ==
  [][\A i \in {1} :
       /\ SelectSetsAndClears(i)
       /\ (RenderingIn(i) /\ NextChildIsOption(Machine)
             /\ SelectFrames(sessions[i].stack) # {}) =>
            sessions[i].currentSelectValue =
              IF EnclosingSelect(i).nested THEN NullNode
              ELSE Controlling(EnclosingSelect(i).element.props)]_vars

\* inside <select defaultValue="a"> the select nested in a Fragment has been
\* popped and the option of the second Fragment is the next child: the
\* select value is null
C29_Witness ==
  /\ RenderingIn(1) /\ NextChildIsOption(Machine)
  /\ Len(sessions[1].stack) = 3 /\ sessions[1].stack[2].type = TagType("select")
  /\ sessions[1].stack[2].childIndex = 3
  /\ EnclosingSelect(1).nested
  /\ Controlling(EnclosingSelect(1).element.props) = Text(<<"a">>)
  /\ sessions[1].currentSelectValue = NullNode


\* the tags of the elements that take no closing tag
VoidTags == {"br", "hr", "img", "input"}

\* the child at the cursor of the top frame is an element of a void tag
NextChildIsVoid(m) ==
  LET frame == TopFrame(m)
      child == frame.children[frame.childIndex + 1]
  IN child.kind = "element" /\ child.type.tt = "string" /\ child.type.tag \in VoidTags

\* the markup a void element puts out is its open tag closed by "/>", and
\* popping the frame of a void tag puts out nothing
VoidTagSelfCloses(i) ==
  LET m == Machine
      top == TopFrame(m)
      child == top.children[top.childIndex + 1]
      depth == sessions[i].suspenseDepth
  IN /\ (RenderingIn(i) /\ NextChildIsVoid(m)) =>
          Level(call'.out, depth) =
            Level(call.out, depth)
            \o CreateOpenTagMarkup(child.type.tag, child.type.tag, DOMProps(m, child),
                                   sessions[i].makeStaticMarkup, Len(sessions[i].stack) = 1)
            \o "/>"
     /\ (PoppingIn(i) /\ top.type.t = "tag" /\ top.type.tag \in VoidTags) =>
          /\ call'.out = call.out
          /\ Len(sessions'[i].stack) = Len(sessions[i].stack) - 1

\* C30 as stated: rendering a void element puts out its self-closed open tag
\* and pushes no frame
C30_VoidTagPushesNoFrame ==
  [][\A i \in {1} :
       /\ VoidTagSelfCloses(i)
       /\ (RenderingIn(i) /\ NextChildIsVoid(Machine)) =>
            Len(sessions'[i].stack) = Len(sessions[i].stack)]_vars

\* C30: rendering a void element puts out its self-closed open tag and
\* pushes a frame as for any other element, whose footer is empty and whose
\* child list is that of the element's children (empty when it has none);
\* the frame is popped by a later pass of the loop, which puts out nothing
C30_VoidTagPushesEmptyFrame ==
  [][\A i \in {1} :
       /\ VoidTagSelfCloses(i)
       /\ (RenderingIn(i) /\ NextChildIsVoid(Machine)) =>
            LET old == sessions[i].stack
                h == Len(old)
                child == old[h].children[old[h].childIndex + 1]
            IN /\ Len(sessions'[i].stack) = h + 1
               /\ sessions'[i].stack[h + 1].type = TagType(child.type.tag)
               /\ sessions'[i].stack[h + 1].footer = ""
               /\ sessions'[i].stack[h + 1].childIndex = 0
               /\ sessions'[i].stack[h + 1].children =
                    (IF "children" \in DOMAIN child.props
                       THEN ToArray(child.props.children) ELSE <<>>)]_vars

\* <b>x<img hidden/>y</b>: the frame of the img is on top of the frame of b
\* and the markup ends with the self-closed tag
C30_Witness ==
  /\ Reading(1) /\ call.pc \in {"loop", "return"}
  /\ sessions[1].makeStaticMarkup
  /\ Len(sessions[1].stack) = 3
  /\ sessions[1].stack[3] = Frame(TagType("img"), "html", <<>>, "")
  /\ Level(call.out, 0) = "<b>x<img hidden=\"\"/>"


\* the content C31 gives a textarea: value, else defaultValue, else the text
\* of the single child, else nothing
TextareaContent(props) ==
  LET has(key) == key \in DOMAIN props /\ props[key].kind \notin {"null", "undefined"}
  IN IF has("value") THEN Stringified(props.value)
     ELSE IF has("defaultValue") THEN Stringified(props.defaultValue)
     ELSE IF has("children")
       THEN (IF props.children.kind = "array"
               THEN Stringified(props.children.items[1]) ELSE Stringified(props.children))
     ELSE <<>>

\* the textarea is passed more than one child and no value
TextareaManyChildren(props) ==
  /\ ~("value" \in DOMAIN props /\ props.value.kind \notin {"null", "undefined"})
  /\ "children" \in DOMAIN props
  /\ props.children.kind = "array" /\ Len(props.children.items) > 1

\* C31: a textarea passed more than one child makes the read raise; any
\* other textarea puts out, between its tags, its value, else its
\* defaultValue, else the text of its single child, else nothing
C31_TextareaContent ==
  \A attrs \in TextareaAttrs :
    ((Drained(1) \/ raised[1]) /\ root[1] = Textarea(attrs)) =>
      IF TextareaManyChildren(attrs) THEN raised[1]
      ELSE /\ ~raised[1]
           /\ emitted[1] = "<textarea" \o RootAttribute(sessions[1].makeStaticMarkup) \o ">"
                             \o EscapeTextForBrowser(TextareaContent(attrs))
                             \o "</textarea>"


\* the child at the cursor of the top frame
NextChild(m) == TopFrame(m).children[TopFrame(m).childIndex + 1]

\* the child is an element of a type that render gives a wrapper frame: a
\* Fragment or a type rendered like it, a provider, a boundary
IsWrapperElement(child) ==
  /\ child.kind = "element"
  /\ \/ child.type.tt = "symbol"
     \/ child.type.tt = "object" /\ child.type.typeof = "REACT_PROVIDER_TYPE"

IsHostElement(child) == child.kind = "element" /\ child.type.tt = "string"

\* C32: previousWasTextNode is false right after the open tag of a host
\* element is put out and right after a frame with a footer is popped, so a
\* text rendered next in dynamic mode gets no separator (its markup is
\* compared in sessions none of whose reads raised, where the buffer level
\* exists); pushing a wrapper frame and popping a frame without a footer
\* leave the flag as it is
C32_FlagResetAtElementBoundaries ==
  [][\A i \in {1} :
       LET m == Machine
           flag == sessions[i].previousWasTextNode
           depth == sessions[i].suspenseDepth
       IN /\ (RenderingIn(i) /\ IsHostElement(NextChild(m)) /\ call'.pc # "throw") =>
               /\ Len(sessions'[i].stack) = Len(sessions[i].stack) + 1
               /\ ~sessions'[i].previousWasTextNode
          /\ PoppingIn(i) =>
               sessions'[i].previousWasTextNode =
                 (IF TopFrame(m).footer # "" THEN FALSE ELSE flag)
          /\ (RenderingIn(i) /\ IsWrapperElement(NextChild(m)) /\ call'.pc # "throw") =>
               sessions'[i].previousWasTextNode = flag
          /\ (RenderingIn(i) /\ NextChild(m).kind = "text" /\ Len(NextChild(m).chars) > 0
                /\ ~sessions[i].makeStaticMarkup /\ ~flag) =>
               /\ sessions'[i].previousWasTextNode
               /\ ~raised[i] =>
                    Level(call'.out, depth) =
                      Level(call.out, depth) \o EscapeTextForBrowser(NextChild(m).chars)]_vars

\* <><b>x</b>y</> in dynamic mode: the text y follows the closing tag of b,
\* inside which the text x had set the flag, and has no separator
C32_Witness ==
  /\ Reading(1) /\ ~sessions[1].makeStaticMarkup
  /\ sessions[1].previousWasTextNode
  /\ Level(call.out, 0) = "<b data-reactroot=\"\">x</b>y"


\* the namespace of the subtree of a tag, for the tags that open one
SubtreeNamespace(tag) == IF tag = "svg" THEN "svg" ELSE "mathml"

\* C33: the root frame carries the HTML namespace, and every frame pushed
\* for a host element below an svg (or math) element carries the SVG (or
\* MathML) namespace, at any depth
C33_DescendantsCarryNamespace ==
  \A i \in {1} : (Live(i) /\ Len(sessions[i].stack) > 0) =>
    LET stack == sessions[i].stack
    IN /\ stack[1].domNamespace = "html"
       /\ \A k \in 1 .. Len(stack) : \A j \in (k + 1) .. Len(stack) :
            (stack[k].type \in {TagType("svg"), TagType("math")} /\ stack[j].type.t = "tag")
              => stack[j].domNamespace = SubtreeNamespace(stack[k].type.tag)


\* the hook state of the module is what it was before any component rendered
HookStateInitial(h) ==
  /\ h.currentlyRenderingComponent = "null"
  /\ h.firstWorkInProgressHook = "null" /\ h.workInProgressHook = "null"
  /\ ~h.didScheduleRenderPhaseUpdate
  /\ h.renderPhaseUpdates = "null"
  /\ h.numberOfReRenders = 0

\* the child the loop is about to render is an element of a composite
\* component or of a forward ref
NextChildIsComponent(m) ==
  /\ Rendering(m)
  /\ LET child == NextChild(m)
     IN /\ IsValidElement(child)
        /\ \/ child.type.tt = "function"
           \/ child.type.tt = "object" /\ child.type.typeof = "REACT_FORWARD_REF_TYPE"

\* the pass of the loop that evaluated a component left the hook state initial
ComponentLeavesHookStateInitial ==
  call # NoCall /\ call.pc = "loop" /\ NextChildIsComponent(Machine)
    => HookStateInitial(hooks')

\* the read call that ended left the hook state initial
ReadLeavesHookStateInitial ==
  call # NoCall /\ call' = NoCall => HookStateInitial(hooks')

\* C34: when control returns from the evaluation of a composite or
\* forward-ref component, whether it returned or raised, and when read
\* returns or raises, every variable of the hook state has its initial value
C34_HookStateResetAfterComponent ==
  [][ComponentLeavesHookStateInitial /\ ReadLeavesHookStateInitial]_vars

\* C35: over the read and destroy calls made on a session from outside its
\* own reads, raised reads included, the id of the session has been released
\* once if the session is exhausted and not at all if it is not
C35_IdReleasedOnceWhenExhausted ==
  \A i \in SessionIds :
    Live(i) => released[i] = IF sessions[i].exhausted THEN 1 ELSE 0

\* a read raised, the session was destroyed and destroyed once more
C35_Witness ==
  /\ raised[1] /\ sessions[1].exhausted /\ Len(sessions[1].stack) > 0
  /\ lastCall.op = "destroy" /\ lastCall.result = "already"
  /\ released[1] = 1

\* destroy() was called on session i by a component that the read call in
\* progress rendered, and the call is still in its loop
DestroyedDuringRead(i) ==
  call # NoCall /\ call.sid = i /\ call.pc = "loop" /\ sessions[i].exhausted

\* the step writes no context slot at the thread id of session i
WritesNoSlotOf(i) ==
  \A c \in ContextNames :
    contexts'[c][sessions[i].threadID] = contexts[c][sessions[i].threadID]

\* C36: when a component calls destroy() on the session whose read renders
\* it, the id of the session is released at most once, and after the destroy
\* the read in progress writes no context slot of the session
C36_DestroyDuringReadReleasesOnce ==
  /\ [](\A i \in SessionIds : released[i] <= 1)
  /\ [][\A i \in SessionIds : DestroyedDuringRead(i) => WritesNoSlotOf(i)]_vars

\* C39: a read call of a non-exhausted session, returning or raising, leaves
\* the current dispatcher and the current partial renderer as it found them:
\* between calls they are what they were before any read, and inside the read
\* of a session they are that session's, also after a component of the read
\* has called read on another session
C39_ReadRestoresDispatcherAndRenderer ==
  IF call = NoCall
    THEN /\ hooks.currentPartialRenderer = InitialHooks.currentPartialRenderer
         /\ hooks.dispatcher = InitialHooks.dispatcher
  ELSE /\ hooks.currentPartialRenderer = call.sid
       /\ hooks.dispatcher = "Dispatcher"

\* the read of session 1 goes on after one of its components read session 2
C39_Witness ==
  /\ call # NoCall /\ call.sid = 1 /\ call.pc = "loop"
  /\ chunks[2] > 0 /\ sessions[2].exhausted
  /\ hooks.currentPartialRenderer = 1

\* a read call with a budget of 0 or less is in progress
EmptyBudgetCall == call # NoCall /\ call.bytes <= 0

\* the renderers, the context slots and the allocator are left as they are
SessionsUntouched ==
  /\ sessions' = sessions
  /\ contexts' = contexts
  /\ nextAvailableThreadIDs' = nextAvailableThreadIDs
  /\ released' = released

\* the loop of a call without budget ends at its first test, also for a
\* renderer whose stack is empty
EmptyStackUntouched ==
  EmptyBudgetCall /\ call.pc = "loop"
    => LET m == [Machine EXCEPT !.s.stack = <<>>]
       IN LoopStep(m) = [m EXCEPT !.pc = "return"]

\* C40: read with a budget of 0 or less on a renderer that is not exhausted
\* returns the empty string and leaves the stack, the cursors, the exhausted
\* flag, the context slots and the thread id of the renderer as they were,
\* and would do so with an empty stack
C40_EmptyBudgetReadChangesNothing ==
  [][ /\ (EmptyBudgetCall \/ (call' # NoCall /\ call'.bytes <= 0)) => SessionsUntouched
      /\ EmptyBudgetCall /\ call' = NoCall
           => lastCall' = [op |-> "read", sid |-> call.sid, result |-> "string", chunk |-> ""]
      /\ EmptyStackUntouched ]_vars

\* a read with budget 0 is about to return from a renderer in the middle of
\* its tree, which was read with a negative budget before
C40_Witness ==
  /\ call # NoCall /\ call.bytes = 0 /\ call.pc = "return"
  /\ -1 \in budgets[call.sid]
  /\ emitted[call.sid] # "" /\ Len(sessions[call.sid].stack) > 1
  /\ ~sessions[call.sid].exhausted

\* C38: when a read call returns normally, suspenseDepth is 0 and no
\* suspension is pending, so no read returns inside the primary content of a
\* boundary
C38_ReturnsOutsideBoundaries ==
  call # NoCall /\ call.pc = "return"
    => sessions[call.sid].suspenseDepth = 0 /\ ~call.suspended

\* C37: a renderer whose components all return or defer, read again and
\* again with budgets of at least 1, becomes exhausted after finitely many
\* passes of the loop, also when boundaries switch to their fallbacks
C37_RepeatedReadsExhaust ==
  Live(1) ~> (Live(1) /\ sessions[1].exhausted)

\* a renderer whose boundary switched to its fallback was read to its end
\* in more than one call
C37_Witness ==
  /\ Drained(1) /\ chunks[1] > 1
  /\ lastFallback[1].set

=============================================================================
